---- MODULE Spec2Model ----
(***************************************************************************)
(* A model of the cii tree-walking interpreter: scanner (scanner.rs),      *)
(* parser (parser.rs), evaluator (expr.rs, interpreter.rs) and the driver  *)
(* (main.rs).  Source text is a sequence of one-character strings; lexemes *)
(* and string payloads are such sequences too.                             *)
(***************************************************************************)
EXTENDS Integers, Sequences, FiniteSets, TLC

VARIABLES
    pc,           \* where the driver is: "prompt", "scan", "parse", "interpret", "crashed"
    scanner,      \* Scanner { source, tokens, start, current, line } and scan_tokens' errors
    parser,       \* Parser { tokens, current } and parse's stmts, errs
    envs,         \* the live Environment frames: envs[i] = [values, enclosing]
    interpreter,  \* Interpreter { environment }: an index into envs
    out,          \* the lines written to stdout by println!
    result,       \* what the last run() returned: [res |-> "Ok" | "Err" | "Panic" | "None", ...]
    lines,        \* number of lines read by run_prompt so far
    log,          \* history of the last interpret() call (events in execution order)
    run           \* the current run(): the stages that returned, and the state it started in

vars == <<pc, scanner, parser, envs, interpreter, out, result, lines, log, run>>

-----------------------------------------------------------------------------
(* Bounds of the model                                                     *)

\* lines read in one REPL session
MaxLines == 2
\* loop iterations plus calls one interpret() may make
MaxFuel == 4

-----------------------------------------------------------------------------
(* Small helpers                                                           *)

Abs(n) == IF n < 0 THEN -n ELSE n

Sgn(n) == IF n < 0 THEN -1 ELSE IF n > 0 THEN 1 ELSE 0

RECURSIVE Gcd(_, _)
Gcd(a, b) == IF b = 0 THEN a ELSE Gcd(b, a % b)

RECURSIVE Pow(_, _)
Pow(b, e) == IF e = 0 THEN 1 ELSE b * Pow(b, e - 1)

Digits == <<"0", "1", "2", "3", "4", "5", "6", "7", "8", "9">>

Digit(d) == Digits[d + 1]

\* usize / integer Display: the decimal digits of n >= 0
RECURSIVE NatToString(_)
NatToString(n) == IF n < 10 THEN <<Digit(n)>>
                  ELSE NatToString(n \div 10) \o <<Digit(n % 10)>>

-----------------------------------------------------------------------------
(* expr.rs: LiteralValue.  Number(f32) is modelled on the f32 values that  *)
(* are exact binary fractions num/den (den = 2^j, j <= MaxFracBits,        *)
(* |num| < 2^24), the two zeros (den = 1 and den = -1), the infinities     *)
(* (den = 0, num = 1 or -1) and NaN (num = 0, den = 0).  An operation      *)
(* whose exact result is not such a value rounds in the program; the model *)
(* stops there (result "Inexact").                                         *)

F32Mantissa == 16777216
\* the binary fractions modelled have at most this many fractional bits
MaxFracBits == 6

Number(n, d) == [t |-> "Number", num |-> n, den |-> d]
StringValue(s) == [t |-> "StringValue", s |-> s]
True == [t |-> "True"]
False == [t |-> "False"]
Nil == [t |-> "Nil"]
Callable(name, arity, fun) == [t |-> "Callable", name |-> name, arity |-> arity, fun |-> fun]

NaN == Number(0, 0)
Inf(sign) == Number(sign, 0)
Zero(sign) == Number(0, sign)

IsNaN(x) == x.num = 0 /\ x.den = 0
IsInf(x) == x.num # 0 /\ x.den = 0
IsZero(x) == x.num = 0 /\ x.den # 0
IsFinite(x) == x.den # 0
NumSign(x) == IF x.num # 0 THEN Sgn(x.num) ELSE Sgn(x.den)

\* the f32 of the rational n/d (d > 0, n # 0), in lowest terms
Ratio(n, d) == LET g == Gcd(Abs(n), d) IN Number(n \div g, d \div g)

IsPowerOfTwo(d) == \E j \in 0..MaxFracBits : d = Pow(2, j)

\* whether the model represents x exactly as an f32
Exact(x) == \/ x.den = 0
            \/ x.num = 0
            \/ (x.den > 0 /\ IsPowerOfTwo(x.den) /\ Abs(x.num) < F32Mantissa)

NumNeg(x) == IF IsNaN(x) THEN x
             ELSE IF x.num = 0 THEN Zero(-x.den)
             ELSE Number(-x.num, x.den)

NumAdd(x, y) ==
    IF IsNaN(x) \/ IsNaN(y) THEN NaN
    ELSE IF IsInf(x) /\ IsInf(y) THEN (IF x.num = y.num THEN x ELSE NaN)
    ELSE IF IsInf(x) THEN x
    ELSE IF IsInf(y) THEN y
    ELSE IF IsZero(x) /\ IsZero(y) THEN (IF x.den = -1 /\ y.den = -1 THEN Zero(-1) ELSE Zero(1))
    ELSE IF IsZero(x) THEN y
    ELSE IF IsZero(y) THEN x
    ELSE LET n == x.num * y.den + y.num * x.den IN
         IF n = 0 THEN Zero(1) ELSE Ratio(n, x.den * y.den)

NumSub(x, y) == NumAdd(x, NumNeg(y))

NumMul(x, y) ==
    IF IsNaN(x) \/ IsNaN(y) THEN NaN
    ELSE IF (IsInf(x) /\ IsZero(y)) \/ (IsZero(x) /\ IsInf(y)) THEN NaN
    ELSE IF IsInf(x) \/ IsInf(y) THEN Inf(NumSign(x) * NumSign(y))
    ELSE IF IsZero(x) \/ IsZero(y) THEN Zero(NumSign(x) * NumSign(y))
    ELSE Ratio(x.num * y.num, x.den * y.den)

NumDiv(x, y) ==
    IF IsNaN(x) \/ IsNaN(y) THEN NaN
    ELSE IF (IsInf(x) /\ IsInf(y)) \/ (IsZero(x) /\ IsZero(y)) THEN NaN
    ELSE IF IsInf(x) \/ IsZero(y) THEN Inf(NumSign(x) * NumSign(y))
    ELSE IF IsZero(x) \/ IsInf(y) THEN Zero(NumSign(x) * NumSign(y))
    ELSE Ratio(Sgn(y.num) * x.num * y.den, x.den * Abs(y.num))

\* x < y on f32 (false when either is NaN)
NumLess(x, y) ==
    IF IsNaN(x) \/ IsNaN(y) THEN FALSE
    ELSE IF IsInf(x) THEN x.num = -1 /\ ~(IsInf(y) /\ y.num = -1)
    ELSE IF IsInf(y) THEN y.num = 1
    ELSE x.num * Abs(y.den) < y.num * Abs(x.den)

\* x == y on f32 (false when either is NaN; the two zeros are equal)
NumEq(x, y) ==
    IF IsNaN(x) \/ IsNaN(y) THEN FALSE
    ELSE IF IsInf(x) \/ IsInf(y) THEN x = y
    ELSE x.num * Abs(y.den) = y.num * Abs(x.den)

Lower == <<"a", "b", "c", "d", "e", "f", "g", "h", "i", "j", "k", "l", "m",
           "n", "o", "p", "q", "r", "s", "t", "u", "v", "w", "x", "y", "z">>

IndexOf(seq, c) == CHOOSE i \in 1..Len(seq) : seq[i] = c

\* the Unicode scalar values of the characters of the model; the
\* characters outside ASCII are written by their code points
CharCodes ==
    [c \in {Lower[i] : i \in 1..26} |-> 96 + IndexOf(Lower, c)]
    @@ [c \in {Digits[i] : i \in 1..10} |-> 47 + IndexOf(Digits, c)]
    @@ ("NUL" :> 0) @@ ("\t" :> 9) @@ ("\n" :> 10) @@ ("\r" :> 13)
    @@ (" " :> 32) @@ ("!" :> 33) @@ ("\"" :> 34) @@ ("#" :> 35)
    @@ ("(" :> 40) @@ (")" :> 41) @@ ("*" :> 42) @@ ("+" :> 43)
    @@ ("," :> 44) @@ ("-" :> 45) @@ ("." :> 46) @@ ("/" :> 47)
    @@ (";" :> 59) @@ ("<" :> 60) @@ ("=" :> 61) @@ (">" :> 62)
    @@ ("@" :> 64) @@ ("A" :> 65) @@ ("I" :> 73) @@ ("X" :> 88) @@ ("Z" :> 90) @@ ("_" :> 95)
    @@ ("{" :> 123) @@ ("}" :> 125)
    @@ ("U+00E9" :> 233) @@ ("U+0131" :> 305) @@ ("U+0161" :> 353)
    @@ ("U+20AC" :> 8364)

\* the Unicode scalar value of a character
CharCode(c) == CharCodes[c]

\* the lexicographic order of two texts (str's Ord)
RECURSIVE StrLess(_, _)
StrLess(a, b) ==
    IF b = << >> THEN FALSE
    ELSE IF a = << >> THEN TRUE
    ELSE IF CharCode(Head(a)) # CharCode(Head(b)) THEN CharCode(Head(a)) < CharCode(Head(b))
    ELSE StrLess(Tail(a), Tail(b))

-----------------------------------------------------------------------------
(* expr.rs: impl LiteralValue                                              *)

\* whether to_string of the number is the exact decimal expansion
Displayable(x) ==
    \/ x.den \in {-1, 0, 1}
    \/ LET j == CHOOSE i \in 0..MaxFracBits : x.den = Pow(2, i) IN Abs(x.num) * Pow(5, j) < 10000000

RECURSIVE PadZeros(_, _)
PadZeros(s, n) == IF Len(s) >= n THEN s ELSE PadZeros(<<"0">> \o s, n)

\* f32's Display
F32ToString(x) ==
    IF IsNaN(x) THEN <<"N", "a", "N">>
    ELSE IF IsInf(x) THEN (IF x.num < 0 THEN <<"-">> ELSE << >>) \o <<"i", "n", "f">>
    ELSE IF x.num = 0 THEN (IF x.den < 0 THEN <<"-">> ELSE << >>) \o <<"0">>
    ELSE LET sign == IF x.num < 0 THEN <<"-">> ELSE << >>
             j == CHOOSE i \in 0..MaxFracBits : x.den = Pow(2, i)
             scaled == Abs(x.num) * Pow(5, j)
             whole == scaled \div Pow(10, j)
             frac == scaled % Pow(10, j)
         IN IF j = 0 THEN sign \o NatToString(whole)
            ELSE sign \o NatToString(whole) \o <<".">> \o PadZeros(NatToString(frac), j)

to_string(v) ==
    CASE v.t = "Number" -> F32ToString(v)
      [] v.t = "StringValue" -> <<"\"">> \o v.s \o <<"\"">>
      [] v.t = "True" -> <<"t", "r", "u", "e">>
      [] v.t = "False" -> <<"f", "a", "l", "s", "e">>
      [] v.t = "Nil" -> <<"n", "i", "l">>
      [] v.t = "Callable" -> v.name \o <<"/">> \o NatToString(v.arity)

to_type(v) ==
    CASE v.t = "Number" -> "Number"
      [] v.t = "StringValue" -> "String"
      [] v.t = "True" -> "Boolean"
      [] v.t = "False" -> "Boolean"
      [] v.t = "Nil" -> "Nil"
      [] v.t = "Callable" -> "Callable"

from_bool(b) == IF b THEN True ELSE False

\* PartialEq for LiteralValue
LiteralValueEq(a, b) ==
    CASE a.t = "Number" /\ b.t = "Number" -> NumEq(a, b)
      [] a.t = "Callable" /\ b.t = "Callable" -> a.name = b.name /\ a.arity = b.arity
      [] a.t = "StringValue" /\ b.t = "StringValue" -> a.s = b.s
      [] a.t = "True" /\ b.t = "True" -> TRUE
      [] a.t = "False" /\ b.t = "False" -> TRUE
      [] a.t = "Nil" /\ b.t = "Nil" -> TRUE
      [] OTHER -> FALSE

\* is_falsy and is_truthy panic on a Callable: [panic |-> TRUE]
is_falsy(v) ==
    CASE v.t = "Number" -> [panic |-> FALSE, v |-> IF NumEq(v, Zero(1)) THEN True ELSE False]
      [] v.t = "StringValue" -> [panic |-> FALSE, v |-> IF Len(v.s) = 0 THEN True ELSE False]
      [] v.t = "True" -> [panic |-> FALSE, v |-> False]
      [] v.t = "False" -> [panic |-> FALSE, v |-> True]
      [] v.t = "Nil" -> [panic |-> FALSE, v |-> True]
      [] v.t = "Callable" -> [panic |-> TRUE]

is_truthy(v) ==
    CASE v.t = "Number" -> [panic |-> FALSE, v |-> IF NumEq(v, Zero(1)) THEN False ELSE True]
      [] v.t = "StringValue" -> [panic |-> FALSE, v |-> IF Len(v.s) = 0 THEN False ELSE True]
      [] v.t = "True" -> [panic |-> FALSE, v |-> True]
      [] v.t = "False" -> [panic |-> FALSE, v |-> False]
      [] v.t = "Nil" -> [panic |-> FALSE, v |-> False]
      [] v.t = "Callable" -> [panic |-> TRUE]

-----------------------------------------------------------------------------
(* environment.rs (not among the sources; modelled from the data model of  *)
(* the specification): a frame is a mapping from names to values and an    *)
(* optional enclosing frame.  Frames live in envs and are referred to by   *)
(* index; enclosing = 0 is None.                                           *)

NoValues == [n \in {} |-> Nil]

Environment_new == [values |-> NoValues, enclosing |-> 0]

\* a define that makes the frame it writes to a child of the globals
DefineRelinking(es, e, name, value) ==
    [es EXCEPT ![e].values = (name :> value) @@ es[e].values,
               ![e].enclosing = IF e > 1 THEN 1 ELSE @]

\* Environment::define: write to this frame
define(es, e, name, value) ==
    [es EXCEPT ![e].values = (name :> value) @@ es[e].values]

\* Environment::get: walk parent-ward until the name is found
RECURSIVE get(_, _, _)
get(es, e, name) ==
    IF name \in DOMAIN es[e].values THEN [some |-> TRUE, value |-> es[e].values[name]]
    ELSE IF es[e].enclosing = 0 THEN [some |-> FALSE]
    ELSE get(es, es[e].enclosing, name)

\* Environment::assign: mutate the first frame that contains the name
RECURSIVE assign(_, _, _, _)
assign(es, e, name, value) ==
    IF name \in DOMAIN es[e].values
    THEN [success |-> TRUE, envs |-> [es EXCEPT ![e].values = (name :> value) @@ es[e].values]]
    ELSE IF es[e].enclosing = 0 THEN [success |-> FALSE, envs |-> es]
    ELSE assign(es, es[e].enclosing, name, value)

\* Rc::new(RefCell::new(env)): the new frame's index and the frames with it
Rc_new(es, env) == [ptr |-> Len(es) + 1, envs |-> Append(es, env)]

\* the last Rc of frame e goes away: the frame is freed.  Frames are made
\* and freed in stack order, so the one freed is the newest
Rc_drop(es, e) == IF e = Len(es) THEN SubSeq(es, 1, Len(es) - 1) ELSE es

-----------------------------------------------------------------------------
(* Evaluation threads a world w = [envs, out, log, fuel, now, calls]       *)
(* through the calls: the frames, stdout, the history, the steps left      *)
(* before the model stops, the time SystemTime::now() reads, and the       *)
(* number of interpret() calls made so far.  A result carries the world    *)
(* after it and res: "Ok" (with value), "Err" (with msg: the Err string),  *)
(* "Panic" (the process aborts) or "Stop" (outside the model's bounds).    *)

\* format!(fmt, args...): the format string and the texts substituted
Msg(fmt, args) == [fmt |-> fmt, args |-> args]

Log(w, event) == [w EXCEPT !.log = Append(w.log, event)]

Ok(w, v) == [w |-> w, res |-> "Ok", value |-> v]
Err(w, msg) == [w |-> Log(w, [ev |-> "error", msg |-> msg, envs |-> w.envs]), res |-> "Err", msg |-> msg]
Panic(w, msg) == [w |-> Log(w, [ev |-> "panic", msg |-> msg]), res |-> "Panic", msg |-> msg]
Stop(w) == [w |-> w, res |-> "Stop"]

\* a Number result, where the model represents it
OkNumber(w, x) == IF Exact(x) THEN Ok(w, x) ELSE Stop(w)

\* the ? of an evaluation: anything but Ok is returned as it is
Try(r, K(_)) == IF r.res # "Ok" THEN r ELSE K(r)

RECURSIVE Evaluate(_, _, _)
RECURSIVE EvaluateArguments(_, _, _, _, _)
RECURSIVE Interpret(_, _, _)
RECURSIVE InterpretFrom(_, _, _, _, _)
RECURSIVE WhileLoop(_, _, _, _)
RECURSIVE fun_impl(_, _, _, _)
RECURSIVE fun_body(_, _, _, _)

\* an assignment that looks for its target before it evaluates the value
EvaluateAssignTargetFirst(e, environment, w) ==
    IF ~get(w.envs, environment, e.name.lexeme).some
    THEN Err(Log(w, [ev |-> "unassigned", name |-> e.name.lexeme,
                     environment |-> environment, envs |-> w.envs]),
             Msg("variable {} has not been declared", <<e.name.lexeme>>))
    ELSE Try(Evaluate(e.value, environment, w), LAMBDA new_value :
             Ok(Log([new_value.w EXCEPT !.envs = assign(new_value.w.envs, environment, e.name.lexeme,
                                                         new_value.value).envs],
                    [ev |-> "assign", name |-> e.name.lexeme, environment |-> environment,
                     value |-> new_value.value, before |-> new_value.w.envs,
                     after |-> assign(new_value.w.envs, environment, e.name.lexeme,
                                      new_value.value).envs]),
                new_value.value))

\* expr.rs 206-214
EvaluateAssign(e, environment, w) ==
    Try(Evaluate(e.value, environment, w), LAMBDA new_value :
        LET assign_success == assign(new_value.w.envs, environment, e.name.lexeme, new_value.value) IN
        IF assign_success.success
        THEN Ok(Log([new_value.w EXCEPT !.envs = assign_success.envs],
                    [ev |-> "assign", name |-> e.name.lexeme, environment |-> environment,
                     value |-> new_value.value, before |-> new_value.w.envs,
                     after |-> assign_success.envs]),
                new_value.value)
        ELSE Err(Log(new_value.w, [ev |-> "unassigned", name |-> e.name.lexeme,
                                   environment |-> environment, envs |-> new_value.w.envs]),
                 Msg("variable {} has not been declared", <<e.name.lexeme>>)))

\* a variable read that declares the name it does not find
EvaluateVariableDeclaring(e, environment, w) ==
    IF get(w.envs, environment, e.name.lexeme).some
    THEN Ok(w, get(w.envs, environment, e.name.lexeme).value)
    ELSE Ok([w EXCEPT !.envs = define(w.envs, environment, e.name.lexeme, Nil)], Nil)

\* expr.rs 215-220
EvaluateVariable(e, environment, w) ==
    LET value == get(w.envs, environment, e.name.lexeme) IN
    IF value.some
    THEN Ok(Log(w, [ev |-> "read", name |-> e.name.lexeme, environment |-> environment,
                    value |-> value.value, envs |-> w.envs]),
            value.value)
    ELSE Err(w, Msg("Variable '{}' has not been declared", <<e.name.lexeme>>))

\* an or that evaluates both operands before it chooses
EvaluateOrEager(e, environment, w) ==
    Try(Evaluate(e.left, environment, w), LAMBDA lhs_value :
        Try(Evaluate(e.right, environment,
                     Log(lhs_value.w, [ev |-> "logical", operator |-> "Or", left |-> lhs_value.value,
                                       right_evaluated |-> TRUE, envs |-> lhs_value.w.envs])),
            LAMBDA rhs_value :
                IF is_truthy(lhs_value.value).panic
                THEN Panic(rhs_value.w, Msg("cannot use callable as truthy value", << >>))
                ELSE IF LiteralValueEq(is_truthy(lhs_value.value).v, True)
                THEN Ok(rhs_value.w, lhs_value.value)
                ELSE rhs_value))

\* expr.rs 224-232
EvaluateOr(e, environment, w) ==
    Try(Evaluate(e.left, environment, w), LAMBDA lhs_value :
        LET lhs_true == is_truthy(lhs_value.value) IN
        IF lhs_true.panic
        THEN Panic(Log(lhs_value.w, [ev |-> "logical", operator |-> "Or", left |-> lhs_value.value,
                                     right_evaluated |-> FALSE, envs |-> lhs_value.w.envs]),
                   Msg("cannot use callable as truthy value", << >>))
        ELSE IF LiteralValueEq(lhs_true.v, True)
        THEN Ok(Log(lhs_value.w, [ev |-> "logical", operator |-> "Or", left |-> lhs_value.value,
                                  right_evaluated |-> FALSE, envs |-> lhs_value.w.envs]),
                lhs_value.value)
        ELSE Evaluate(e.right, environment,
                      Log(lhs_value.w, [ev |-> "logical", operator |-> "Or", left |-> lhs_value.value,
                                        right_evaluated |-> TRUE, envs |-> lhs_value.w.envs])))

\* expr.rs 233-241
EvaluateAnd(e, environment, w) ==
    Try(Evaluate(e.left, environment, w), LAMBDA lhs_value :
        LET lhs_true == is_truthy(lhs_value.value) IN
        IF lhs_true.panic
        THEN Panic(Log(lhs_value.w, [ev |-> "logical", operator |-> "And", left |-> lhs_value.value,
                                     right_evaluated |-> FALSE, envs |-> lhs_value.w.envs]),
                   Msg("cannot use callable as truthy value", << >>))
        ELSE IF LiteralValueEq(lhs_true.v, False)
        THEN Ok(Log(lhs_value.w, [ev |-> "logical", operator |-> "And", left |-> lhs_value.value,
                                  right_evaluated |-> FALSE, envs |-> lhs_value.w.envs]),
                lhs_true.v)
        ELSE Evaluate(e.right, environment,
                      Log(lhs_value.w, [ev |-> "logical", operator |-> "And", left |-> lhs_value.value,
                                        right_evaluated |-> TRUE, envs |-> lhs_value.w.envs])))

\* expr.rs 222-244
EvaluateLogical(e, environment, w) ==
    CASE e.operator.token_type = "Or" -> EvaluateOr(e, environment, w)
      [] e.operator.token_type = "And" -> EvaluateAnd(e, environment, w)
      [] OTHER -> Err(w, Msg("Invalid token in logical expression: {}", <<<<e.operator.token_type>>>>))

\* expr.rs 249-254: the match on (right, operator)
UnaryOp(ttype, right, w) ==
    CASE right.t = "Number" /\ ttype = "Minus" -> OkNumber(w, NumNeg(right))
      [] right.t # "Number" /\ ttype = "Minus" ->
            Err(w, Msg("minus not implemented for {}", <<<<to_type(right)>>>>))
      [] ttype = "Bang" ->
            LET falsy == is_falsy(right) IN
            IF falsy.panic THEN Panic(w, Msg("cannot use callable as truthy value", << >>))
            ELSE Ok(w, falsy.v)
      [] OTHER -> Err(w, Msg("{} is not a valid unary operator", <<<<ttype>>>>))

\* expr.rs 246-255
EvaluateUnary(e, environment, w) ==
    Try(Evaluate(e.right, environment, w), LAMBDA right :
        UnaryOp(e.operator.token_type, right.value, right.w))

\* equality as a language with == on every value would have it
BinaryOpOnAnyValue(left, ttype, right, w) ==
    CASE ttype = "EqualEqual" -> Ok(w, from_bool(LiteralValueEq(left, right)))
      [] ttype = "BangEqual" -> Ok(w, from_bool(~LiteralValueEq(left, right)))
      [] OTHER -> Err(w, Msg("{} is not implemented for operands {} and {}",
                             <<<<ttype>>, to_string(left), to_string(right)>>))

\* expr.rs 260-284: the match on (left, operator, right)
BinaryOp(left, ttype, right, w) ==
    CASE left.t = "Number" /\ right.t = "Number" /\ ttype = "Plus" -> OkNumber(w, NumAdd(left, right))
      [] left.t = "Number" /\ right.t = "Number" /\ ttype = "Minus" -> OkNumber(w, NumSub(left, right))
      [] left.t = "Number" /\ right.t = "Number" /\ ttype = "Star" -> OkNumber(w, NumMul(left, right))
      [] left.t = "Number" /\ right.t = "Number" /\ ttype = "Slash" -> OkNumber(w, NumDiv(left, right))
      [] left.t = "Number" /\ right.t = "Number" /\ ttype = "Greater" ->
            Ok(w, from_bool(NumLess(right, left)))
      [] left.t = "Number" /\ right.t = "Number" /\ ttype = "GreaterEqual" ->
            Ok(w, from_bool(NumLess(right, left) \/ NumEq(left, right)))
      [] left.t = "Number" /\ right.t = "Number" /\ ttype = "Less" ->
            Ok(w, from_bool(NumLess(left, right)))
      [] left.t = "Number" /\ right.t = "Number" /\ ttype = "LessEqual" ->
            Ok(w, from_bool(NumLess(left, right) \/ NumEq(left, right)))
      [] left.t = "Number" /\ right.t = "Number" /\ ttype = "BangEqual" ->
            Ok(w, from_bool(~NumEq(left, right)))
      [] left.t = "Number" /\ right.t = "Number" /\ ttype = "EqualEqual" ->
            Ok(w, from_bool(NumEq(left, right)))
      [] left.t = "StringValue" /\ right.t = "Number" ->
            Err(w, Msg("'{}' is not defined for string and number", <<<<ttype>>>>))
      [] left.t = "Number" /\ right.t = "StringValue" ->
            Err(w, Msg("'{}' is not defined for number and string", <<<<ttype>>>>))
      [] left.t = "StringValue" /\ right.t = "StringValue" /\ ttype = "Plus" ->
            Ok(w, StringValue(left.s \o right.s))
      [] left.t = "StringValue" /\ right.t = "StringValue" /\ ttype = "EqualEqual" ->
            Ok(w, from_bool(left.s = right.s))
      [] left.t = "StringValue" /\ right.t = "StringValue" /\ ttype = "BangEqual" ->
            Ok(w, from_bool(left.s # right.s))
      [] left.t = "StringValue" /\ right.t = "StringValue" /\ ttype = "Greater" ->
            Ok(w, from_bool(StrLess(right.s, left.s)))
      [] left.t = "StringValue" /\ right.t = "StringValue" /\ ttype = "GreaterEqual" ->
            Ok(w, from_bool(~StrLess(left.s, right.s)))
      [] left.t = "StringValue" /\ right.t = "StringValue" /\ ttype = "Less" ->
            Ok(w, from_bool(StrLess(left.s, right.s)))
      [] left.t = "StringValue" /\ right.t = "StringValue" /\ ttype = "LessEqual" ->
            Ok(w, from_bool(~StrLess(right.s, left.s)))
      [] OTHER ->
            Err(w, Msg("{} is not implemented for operands {} and {}",
                       <<<<ttype>>, to_string(left), to_string(right)>>))

\* expr.rs 256-285
EvaluateBinary(e, environment, w) ==
    Try(Evaluate(e.left, environment, w), LAMBDA left :
        Try(Evaluate(e.right, environment, left.w), LAMBDA right :
            BinaryOp(left.value, e.operator.token_type, right.value, right.w)))

\* interpreter.rs 13-22: the time read, as a string
clock_impl(env, args, w) == Ok(w, StringValue(NatToString(w.now)))

\* a call that hands the globals to the function, whatever the caller's environment
CallFunInGlobals(fun, environment, args, w) ==
    IF w.fuel = 0 THEN Stop(w)
    ELSE IF fun.kind = "clock_impl" THEN clock_impl(environment, args, [w EXCEPT !.fuel = @ - 1])
    ELSE fun_impl(fun, 1, args, [w EXCEPT !.fuel = @ - 1])

\* the call fun(environment, &arg_vals) of expr.rs 303
CallFun(fun, environment, args, w) ==
    IF w.fuel = 0 THEN Stop(w)
    ELSE IF fun.kind = "clock_impl" THEN clock_impl(environment, args, [w EXCEPT !.fuel = @ - 1])
    ELSE fun_impl(fun, environment, args, [w EXCEPT !.fuel = @ - 1])

\* expr.rs 296-300: the arguments from the i-th on, left to right
EvaluateArguments(arguments, i, arg_vals, environment, w) ==
    IF i > Len(arguments) THEN Ok(w, arg_vals)
    ELSE Try(Evaluate(arguments[i], environment, Log(w, [ev |-> "arg", index |-> i])), LAMBDA val :
             EvaluateArguments(arguments, i + 1, Append(arg_vals, val.value), environment, val.w))

\* a call that evaluates the arguments before it compares their number with the arity
CallCallableArgumentsFirst(callable, arguments, environment, w) ==
    Try(EvaluateArguments(arguments, 1, << >>, environment, w), LAMBDA arg_vals :
        IF Len(arguments) # callable.arity
        THEN Err(arg_vals.w, Msg("Callable {} expected {} arguments but got {}",
                                 <<callable.name, NatToString(callable.arity), NatToString(Len(arguments))>>))
        ELSE CallFun(callable.fun, environment, arg_vals.value, arg_vals.w))

\* expr.rs 290-304: the callee is a Callable
CallCallable(callable, arguments, environment, w) ==
    IF Len(arguments) # callable.arity
    THEN Err(w, Msg("Callable {} expected {} arguments but got {}",
                    <<callable.name, NatToString(callable.arity), NatToString(Len(arguments))>>))
    ELSE Try(EvaluateArguments(arguments, 1, << >>, environment, w), LAMBDA arg_vals :
             CallFun(callable.fun, environment, arg_vals.value, arg_vals.w))

\* expr.rs 286-307
EvaluateCall(e, environment, w) ==
    Try(Evaluate(e.callee, environment, w), LAMBDA callable :
        IF callable.value.t = "Callable"
        THEN CallCallable(callable.value, e.arguments, environment,
                          Log(callable.w, [ev |-> "callee", name |-> callable.value.name,
                                           arity |-> callable.value.arity,
                                           nargs |-> Len(e.arguments),
                                           environment |-> environment,
                                           envs |-> callable.w.envs]))
        ELSE Err(callable.w, Msg("{} is not callable", <<<<to_type(callable.value)>>>>)))

\* expr.rs 202-309
Evaluate(e, environment, w) ==
    CASE e.k = "Assign" -> EvaluateAssign(e, environment, w)
      [] e.k = "Variable" -> EvaluateVariable(e, environment, w)
      [] e.k = "Literal" -> Ok(w, e.value)
      [] e.k = "Logical" -> EvaluateLogical(e, environment, w)
      [] e.k = "Grouping" -> Evaluate(e.expression, environment, w)
      [] e.k = "Unary" -> EvaluateUnary(e, environment, w)
      [] e.k = "Binary" -> EvaluateBinary(e, environment, w)
      [] e.k = "Call" -> EvaluateCall(e, environment, w)

-----------------------------------------------------------------------------
(* interpreter.rs.  The result of executing statements carries the world,  *)
(* res as above, and environment: the Interpreter's environment field when *)
(* the call returns.                                                       *)

Done(w, environment) == [w |-> w, res |-> "Ok", environment |-> environment]

\* an evaluation that did not return Ok ends the call
Fail(r, environment) ==
    IF r.res = "Stop" THEN [w |-> r.w, res |-> "Stop", environment |-> environment]
    ELSE [w |-> r.w, res |-> r.res, msg |-> r.msg, environment |-> environment]

\* the ? of expression.evaluate(..)? in a statement
TryEvaluate(r, environment, K(_)) == IF r.res # "Ok" THEN Fail(r, environment) ELSE K(r)

\* the ? of self.interpret(..)?
TryInterpret(r, K(_)) == IF r.res # "Ok" THEN r ELSE K(r)

\* interpreter.rs 39-46: a fresh frame whose enclosing is parent
for_closure(es, parent) == Rc_new(es, [Environment_new EXCEPT !.enclosing = parent])

\* parameters bound in the frame that encloses the closure's frame
RECURSIVE BindParamsInCaller(_, _, _, _, _)
BindParamsInCaller(w, environment, params, args, i) ==
    IF i > Len(args) THEN w
    ELSE BindParamsInCaller(
             Log([w EXCEPT !.envs = define(w.envs, w.envs[environment].enclosing, params[i].lexeme, args[i])],
                 [ev |-> "define", name |-> params[i].lexeme, environment |-> w.envs[environment].enclosing,
                  value |-> args[i], before |-> w.envs,
                  after |-> define(w.envs, w.envs[environment].enclosing, params[i].lexeme, args[i])]),
             environment, params, args, i + 1)

\* interpreter.rs 121-126: bind the parameters in the closure's frame
RECURSIVE BindParams(_, _, _, _, _)
BindParams(w, environment, params, args, i) ==
    IF i > Len(args) THEN w
    ELSE BindParams(Log([w EXCEPT !.envs = define(w.envs, environment, params[i].lexeme, args[i])],
                        [ev |-> "define", name |-> params[i].lexeme, environment |-> environment,
                         value |-> args[i], before |-> w.envs,
                         after |-> define(w.envs, environment, params[i].lexeme, args[i])]),
                    environment, params, args, i + 1)

\* .expect(..) and .unwrap(): an Err is a panic
Unwrap(r, msg) == IF r.res = "Err" THEN [r EXCEPT !.res = "Panic", !.msg = msg,
                                                  !.w = Log(r.w, [ev |-> "panic", msg |-> msg])]
                  ELSE r

\* interpreter.rs 128-135: body[i .. len-2] as statements
fun_body(fun, i, environment, w) ==
    IF i > Len(fun.body) - 1 THEN Done(w, environment)
    ELSE TryInterpret(Unwrap(Interpret(<<fun.body[i]>>, environment, w),
                             Msg("evaluating failed inside {}", <<fun.name_clone.lexeme>>)),
                      LAMBDA r : fun_body(fun, i + 1, r.environment, r.w))

\* interpreter.rs 137-147: the value of the last body statement
fun_value(fun, environment, w) ==
    LET last == fun.body[Len(fun.body)] IN
    IF last.k = "Expression"
    THEN Unwrap(Evaluate(last.expression, environment, w),
                Msg("called Result::unwrap() on an Err value", << >>))
    ELSE Panic(w, Msg("not yet implemented", << >>))

\* interpreter.rs 119-148: the closure made for a function declaration
fun_impl(fun, parent_env, args, w) ==
    LET closure_interpreter == for_closure(w.envs, parent_env)
        entered == BindParams(Log([w EXCEPT !.envs = closure_interpreter.envs],
                                  [ev |-> "enter", name |-> fun.name_clone.lexeme,
                                   frame |-> closure_interpreter.ptr, parent |-> parent_env,
                                   declared |-> fun.declared, before |-> w.envs,
                                   after |-> closure_interpreter.envs]),
                              closure_interpreter.ptr, fun.params, args, 1)
    IN
    IF Len(fun.body) = 0 THEN Panic(entered, Msg("attempt to subtract with overflow", << >>))
    ELSE TryEvaluate(fun_body(fun, 1, closure_interpreter.ptr, entered), 0, LAMBDA stmts :
             Try(fun_value(fun, stmts.environment, stmts.w), LAMBDA value :
                 Ok(Log([value.w EXCEPT !.envs = Rc_drop(value.w.envs, closure_interpreter.ptr)],
                        [ev |-> "leave", name |-> fun.name_clone.lexeme,
                         frame |-> closure_interpreter.ptr, envs |-> value.w.envs]),
                    value.value)))

\* interpreter.rs 53-57
ExecuteExpression(stmt, environment, w) ==
    TryEvaluate(Evaluate(stmt.expression, environment, w), environment, LAMBDA value :
        Done(value.w, environment))

\* interpreter.rs 58-63
ExecutePrint(stmt, environment, w) ==
    TryEvaluate(Evaluate(stmt.expression, environment, w), environment, LAMBDA value :
        IF value.value.t = "Number" /\ ~Displayable(value.value) THEN Fail(Stop(value.w), environment)
        ELSE Done(Log([value.w EXCEPT !.out = Append(@, to_string(value.value))],
                      [ev |-> "println", line |-> to_string(value.value)]),
                  environment))

\* interpreter.rs 64-71
ExecuteVar(stmt, environment, w) ==
    TryEvaluate(Evaluate(stmt.initializer, environment, w), environment, LAMBDA value :
        LET es == define(value.w.envs, environment, stmt.name.lexeme, value.value) IN
        Done(Log([value.w EXCEPT !.envs = es],
                 [ev |-> "define", name |-> stmt.name.lexeme, environment |-> environment,
                  value |-> value.value, before |-> value.w.envs, after |-> es]),
             environment))

\* interpreter.rs 79-80: the block's statements have run, with result r
BlockExit(r, old_environment, new_environment) ==
    IF r.res # "Ok"
    THEN [r EXCEPT !.w = Log(r.w, [ev |-> "block", res |-> r.res, entered |-> old_environment,
                                   frame |-> new_environment, left |-> r.environment,
                                   envs |-> r.w.envs, after |-> r.w.envs])]
    ELSE Done(Log([r.w EXCEPT !.envs = Rc_drop(r.w.envs, new_environment)],
                  [ev |-> "block", res |-> "Ok", entered |-> old_environment,
                   frame |-> new_environment, left |-> old_environment,
                   envs |-> r.w.envs, after |-> Rc_drop(r.w.envs, new_environment)]),
              old_environment)

\* interpreter.rs 72-81
ExecuteBlock(stmt, environment, w) ==
    LET new_environment == Rc_new(w.envs, [Environment_new EXCEPT !.enclosing = environment]) IN
    BlockExit(Interpret(stmt.statements, new_environment.ptr,
                        Log([w EXCEPT !.envs = new_environment.envs],
                            [ev |-> "scope", frame |-> new_environment.ptr, parent |-> environment,
                             before |-> w.envs, after |-> new_environment.envs])),
              environment, new_environment.ptr)

\* interpreter.rs 82-92
ExecuteIfStmt(stmt, environment, w) ==
    TryEvaluate(Evaluate(stmt.predicate, environment, w), environment, LAMBDA truth_value :
        LET truthy == is_truthy(truth_value.value) IN
        IF truthy.panic
        THEN Fail(Panic(truth_value.w, Msg("cannot use callable as truthy value", << >>)), environment)
        ELSE IF LiteralValueEq(truthy.v, True) THEN Interpret(<<stmt.then>>, environment, truth_value.w)
        ELSE IF Len(stmt.els) > 0 THEN Interpret(<<stmt.els[1]>>, environment, truth_value.w)
        ELSE Done(truth_value.w, environment))

\* interpreter.rs 95-101: the loop, entered with the condition's value
WhileLoop(stmt, flag, environment, w) ==
    LET truthy == is_truthy(flag) IN
    IF truthy.panic THEN Fail(Panic(w, Msg("cannot use callable as truthy value", << >>)), environment)
    ELSE IF ~LiteralValueEq(truthy.v, True) THEN Done(Log(w, [ev |-> "condition", truthy |-> FALSE]), environment)
    ELSE IF w.fuel = 0 THEN Fail(Stop(w), environment)
    ELSE TryInterpret(Interpret(<<stmt.body>>, environment,
                                Log(Log([w EXCEPT !.fuel = @ - 1], [ev |-> "condition", truthy |-> TRUE]),
                                    [ev |-> "iteration", kind |-> stmt.body.k])),
                      LAMBDA body :
             TryEvaluate(Evaluate(stmt.condition, body.environment, body.w), body.environment,
                         LAMBDA next : WhileLoop(stmt, next.value, body.environment, next.w)))

\* interpreter.rs 93-102
ExecuteWhileStmt(stmt, environment, w) ==
    TryEvaluate(Evaluate(stmt.condition, environment, w), environment, LAMBDA flag :
        WhileLoop(stmt, flag.value, environment, flag.w))

\* interpreter.rs 103-158
ExecuteFunction(stmt, environment, w) ==
    LET callable == Callable(stmt.name.lexeme, Len(stmt.params),
                             [kind |-> "fun_impl", params |-> stmt.params, body |-> stmt.body,
                              name_clone |-> stmt.name, declared |-> environment])
        es == define(w.envs, environment, stmt.name.lexeme, callable)
    IN Done(Log([w EXCEPT !.envs = es],
                [ev |-> "define", name |-> stmt.name.lexeme, environment |-> environment,
                 value |-> callable, before |-> w.envs, after |-> es]),
            environment)

\* interpreter.rs 52-159: the match on one statement
Execute(stmt, environment, w) ==
    CASE stmt.k = "Expression" -> ExecuteExpression(stmt, environment, w)
      [] stmt.k = "Print" -> ExecutePrint(stmt, environment, w)
      [] stmt.k = "Var" -> ExecuteVar(stmt, environment, w)
      [] stmt.k = "Block" -> ExecuteBlock(stmt, environment, w)
      [] stmt.k = "IfStmt" -> ExecuteIfStmt(stmt, environment, w)
      [] stmt.k = "WhileStmt" -> ExecuteWhileStmt(stmt, environment, w)
      [] stmt.k = "Function" -> ExecuteFunction(stmt, environment, w)

\* a statement's Err is dropped and the loop goes on
Swallow(r, K(_)) == IF r.res \in {"Panic", "Stop"} THEN r ELSE K(r)

\* a loop over stmts that goes on after a statement failed
InterpretFromContinuing(stmts, i, environment, w, call) ==
    IF i > Len(stmts) THEN Done(w, environment)
    ELSE Swallow(Execute(stmts[i], environment,
                         Log(w, [ev |-> "exec", call |-> call, index |-> i, of |-> Len(stmts),
                                 kind |-> stmts[i].k])),
                 LAMBDA r : InterpretFrom(stmts, i + 1, r.environment, r.w, call))

\* interpreter.rs 51-160: the for loop over stmts, from the i-th statement on
InterpretFrom(stmts, i, environment, w, call) ==
    IF i > Len(stmts) THEN Done(w, environment)
    ELSE TryInterpret(Execute(stmts[i], environment,
                              Log(w, [ev |-> "exec", call |-> call, index |-> i, of |-> Len(stmts),
                                      kind |-> stmts[i].k])),
                      LAMBDA r : InterpretFrom(stmts, i + 1, r.environment,
                                               Log(r.w, [ev |-> "done", call |-> call, index |-> i,
                                                         kind |-> stmts[i].k]),
                                               call))

\* the history's record of an interpret() call returning
Returned(r, call) == [r EXCEPT !.w = Log(r.w, [ev |-> "return", call |-> call, res |-> r.res])]

\* interpreter.rs 48-163
Interpret(stmts, environment, w) ==
    Returned(InterpretFrom(stmts, 1, environment, [w EXCEPT !.calls = w.calls + 1], w.calls + 1),
             w.calls + 1)

-----------------------------------------------------------------------------
(* abstract syntax (expr.rs 132-166, stmt.rs 4-22) and tokens              *)
(* (scanner.rs 365-371)                                                    *)

NoLiteral == [lk |-> "None"]

Token(token_type, lexeme, literal, line_num) ==
    [token_type |-> token_type, lexeme |-> lexeme, literal |-> literal, line_num |-> line_num]

Literal(value) == [k |-> "Literal", value |-> value]
Variable(name) == [k |-> "Variable", name |-> name]
Assign(name, value) == [k |-> "Assign", name |-> name, value |-> value]
Unary(operator, right) == [k |-> "Unary", operator |-> operator, right |-> right]
Binary(left, operator, right) == [k |-> "Binary", left |-> left, operator |-> operator, right |-> right]
Logical(left, operator, right) == [k |-> "Logical", left |-> left, operator |-> operator, right |-> right]
Grouping(expression) == [k |-> "Grouping", expression |-> expression]
Call(callee, paren, arguments) == [k |-> "Call", callee |-> callee, paren |-> paren, arguments |-> arguments]

Expression(expression) == [k |-> "Expression", expression |-> expression]
PrintStmt(expression) == [k |-> "Print", expression |-> expression]
Var(name, initializer) == [k |-> "Var", name |-> name, initializer |-> initializer]
Block(statements) == [k |-> "Block", statements |-> statements]
IfStmt(predicate, then, els) == [k |-> "IfStmt", predicate |-> predicate, then |-> then, els |-> els]
WhileStmt(condition, body) == [k |-> "WhileStmt", condition |-> condition, body |-> body]
Function(name, params, body) == [k |-> "Function", name |-> name, params |-> params, body |-> body]

-----------------------------------------------------------------------------
(* scanner.rs.  Scanner.source is a String: source.len() and the slices    *)
(* source[a..b] count UTF-8 bytes, chars().nth(i) counts characters.       *)
(* start and current are 0-based as in the code.  errors is the local of   *)
(* scan_tokens, kept with the scanner.                                     *)

\* char::len_utf8
Utf8Len(c) == IF CharCode(c) < 128 THEN 1 ELSE IF CharCode(c) < 2048 THEN 2 ELSE 3

\* ch as u8: the low eight bits of the scalar value
AsU8(ch) == CharCode(ch) % 256

\* scanner.rs 3-5
is_digit(ch) == AsU8(ch) >= 48 /\ AsU8(ch) <= 57

\* scanner.rs 7-12
is_alpha(ch) ==
    \/ AsU8(ch) >= 97 /\ AsU8(ch) <= 122
    \/ AsU8(ch) >= 65 /\ AsU8(ch) <= 90
    \/ AsU8(ch) = 95

\* scanner.rs 14-21
is_alpha_numeric(ch) == is_digit(ch) \/ is_alpha(ch)

\* scanner.rs 23-42
get_keywords_hashmap ==
    << <<<<"a", "n", "d">>, "And">>, <<<<"o", "r">>, "Or">>,
       <<<<"p", "r", "i", "n", "t">>, "Print">>, <<<<"v", "a", "r">>, "Var">>,
       <<<<"w", "h", "i", "l", "e">>, "While">>, <<<<"t", "r", "u", "e">>, "True">>,
       <<<<"f", "a", "l", "s", "e">>, "False">>, <<<<"f", "u", "n">>, "Fun">>,
       <<<<"f", "o", "r">>, "For">>, <<<<"i", "f">>, "If">>, <<<<"n", "i", "l">>, "Nil">>,
       <<<<"r", "e", "t", "u", "r", "n">>, "Return">>, <<<<"s", "u", "p", "e", "r">>, "Super">>,
       <<<<"t", "h", "i", "s">>, "This">>, <<<<"c", "l", "a", "s", "s">>, "Class">>,
       <<<<"e", "l", "s", "e">>, "Else">> >>

\* str::len: the number of bytes, one to three for a character
ByteLen(text) ==
    Len(text) + Cardinality({i \in DOMAIN text : CharCode(text[i]) >= 128})
              + Cardinality({i \in DOMAIN text : CharCode(text[i]) >= 2048})

\* the numbers of characters that make the first b bytes of text: one
\* number, or none when b is inside a character or past the end
CharsBefore(text, b) == {k \in 0..Len(text) : ByteLen(SubSeq(text, 1, k)) = b}

\* whether byte offset b of text starts a character or ends the text
IsCharBoundary(text, b) == CharsBefore(text, b) # {}

\* &text[from..to]: panics unless from <= to and both are character boundaries
Slice(text, from, to) ==
    IF from > to \/ ~IsCharBoundary(text, from) \/ ~IsCharBoundary(text, to)
    THEN [panic |-> TRUE, text |-> << >>]
    ELSE [panic |-> FALSE,
          text |-> SubSeq(text, 1 + (CHOOSE k \in CharsBefore(text, from) : TRUE),
                          CHOOSE k \in CharsBefore(text, to) : TRUE)]

\* what stands for chars().nth(i) being None, on which .unwrap() panics
NoneUnwrap == "None"

\* source.chars().nth(i)
Nth(source, i) == IF i < Len(source) THEN source[i + 1] ELSE NoneUnwrap

\* scanner.rs 54-63.  spans and error_at are history: the start and current
\* at which each token was pushed, and the start of each step that failed
Scanner_new(source) ==
    [source |-> source, tokens |-> << >>, start |-> 0, current |-> 0, line |-> 1, errors |-> << >>,
     spans |-> << >>, error_at |-> << >>]

ScanOk(s) == [s |-> s, res |-> "Ok"]
ScanErr(s, msg) == [s |-> s, res |-> "Err", msg |-> msg]
ScanPanic(s) == [s |-> s, res |-> "Panic", msg |-> Msg("scanner panicked", << >>)]

\* scanner.rs 294-296
is_at_end(s) == s.current >= ByteLen(s.source)

\* scanner.rs 286-292
peek(s) == IF is_at_end(s) THEN "NUL" ELSE Nth(s.source, s.current)

\* scanner.rs 278-284
peek_next(s) == IF s.current + 1 >= ByteLen(s.source) THEN "NUL" ELSE Nth(s.source, s.current + 1)

\* scanner.rs 260-269
add_token_lit(s, token_type, literal) ==
    IF Slice(s.source, s.start, s.current).panic THEN ScanPanic(s)
    ELSE ScanOk([s EXCEPT !.tokens = Append(@, Token(token_type, Slice(s.source, s.start, s.current).text,
                                                   literal, s.line)),
                          !.spans = Append(@, [start |-> s.start, current |-> s.current])])

\* scanner.rs 256-258
add_token(s, token_type) == add_token_lit(s, token_type, NoLiteral)

\* scanner.rs 243-254, followed by add_token of the one or the other type
char_match(s, ch, matched, unmatched) ==
    IF is_at_end(s) THEN add_token(s, unmatched)
    ELSE IF Nth(s.source, s.current) = NoneUnwrap THEN ScanPanic(s)
    ELSE IF Nth(s.source, s.current) # ch THEN add_token(s, unmatched)
    ELSE add_token([s EXCEPT !.current = @ + 1], matched)

\* scanner.rs 146-151: the loop over a comment
RECURSIVE SkipComment(_)
SkipComment(s) ==
    IF peek(s) = NoneUnwrap THEN ScanPanic(s)
    ELSE IF peek(s) = "\n" \/ is_at_end(s) THEN ScanOk(s)
    ELSE SkipComment([s EXCEPT !.current = @ + 1])

\* while is_digit(self.peek()) { self.advance(); } and the same with is_alpha_numeric
RECURSIVE AdvanceWhile(_, _)
AdvanceWhile(s, class) ==
    IF peek(s) = NoneUnwrap THEN ScanPanic(s)
    ELSE IF (class = "digit" /\ is_digit(peek(s))) \/ (class = "alpha_numeric" /\ is_alpha_numeric(peek(s)))
    THEN AdvanceWhile([s EXCEPT !.current = @ + 1], class)
    ELSE ScanOk(s)

\* the ? of a scanner step
TryScan(r, K(_)) == IF r.res # "Ok" THEN r ELSE K(r.s)

\* scanner.rs 177-188
identifier(s) ==
    TryScan(AdvanceWhile(s, "alpha_numeric"), LAMBDA s1 :
        LET substring == Slice(s1.source, s1.start, s1.current) IN
        IF substring.panic THEN ScanPanic(s1)
        ELSE IF \E i \in 1..Len(get_keywords_hashmap) : get_keywords_hashmap[i][1] = substring.text
        THEN add_token(s1, get_keywords_hashmap[CHOOSE i \in 1..Len(get_keywords_hashmap) :
                                                    get_keywords_hashmap[i][1] = substring.text][2])
        ELSE add_token(s1, "Identifier"))

\* the value of a text of decimal digits
RECURSIVE DigitsValue(_)
DigitsValue(text) ==
    IF text = << >> THEN 0 ELSE 10 * DigitsValue(SubSeq(text, 1, Len(text) - 1)) + IndexOf(Digits, text[Len(text)]) - 1

IsDigits(text) == text # << >> /\ \A i \in 1..Len(text) : \E d \in 1..10 : Digits[d] = text[i]

RECURSIVE StripZeros(_)
StripZeros(text) == IF Len(text) > 1 /\ Head(text) = "0" THEN StripZeros(Tail(text)) ELSE text

\* i64::MAX in decimal
I64Max == <<"9", "2", "2", "3", "3", "7", "2", "0", "3", "6", "8", "5", "4", "7", "7", "5", "8", "0", "7">>

\* substring.parse::<i64>(): the value is kept by its decimal digits
ParseI64(text) ==
    IF ~IsDigits(text) THEN [ok |-> FALSE, e |-> Msg("invalid digit found in string", << >>)]
    ELSE IF Len(StripZeros(text)) > Len(I64Max)
            \/ (Len(StripZeros(text)) = Len(I64Max) /\ StrLess(I64Max, StripZeros(text)))
    THEN [ok |-> FALSE, e |-> Msg("number too large to fit in target type", << >>)]
    ELSE [ok |-> TRUE, literal |-> [lk |-> "IntValue", digits |-> StripZeros(text)]]

\* substring.parse::<f64>() of digits "." digits: the f64 nearest to num / den
ParseF64(text) ==
    IF \E i \in 1..Len(text) : /\ text[i] = "."
                               /\ IsDigits(SubSeq(text, 1, i - 1))
                               /\ IsDigits(SubSeq(text, i + 1, Len(text)))
    THEN LET i == CHOOSE i \in 1..Len(text) : text[i] = "."
             num == DigitsValue(SubSeq(text, 1, i - 1) \o SubSeq(text, i + 1, Len(text)))
             den == Pow(10, Len(text) - i)
         IN [ok |-> TRUE, literal |-> [lk |-> "FValue", num |-> num \div Gcd(num, den),
                                       den |-> den \div Gcd(num, den)]]
    ELSE [ok |-> FALSE, e |-> Msg("invalid float literal", << >>)]

\* scanner.rs 198-219: the substring is parsed and the token added
NumberToken(s, parsed) ==
    IF parsed.ok THEN add_token_lit(s, "Number", parsed.literal)
    ELSE ScanErr(s, Msg("Couldn't parse number at line {}: {}", <<NatToString(s.line), <<parsed.e.fmt>>>>))

\* scanner.rs 190-220
number(s) ==
    TryScan(AdvanceWhile(s, "digit"), LAMBDA s1 :
        IF peek(s1) = "." /\ peek_next(s1) = NoneUnwrap THEN ScanPanic(s1)
        ELSE IF peek(s1) = "." /\ is_digit(peek_next(s1))
        THEN TryScan(AdvanceWhile([s1 EXCEPT !.current = @ + 1], "digit"), LAMBDA s2 :
                 IF Slice(s2.source, s2.start, s2.current).panic THEN ScanPanic(s2)
                 ELSE NumberToken(s2, ParseF64(Slice(s2.source, s2.start, s2.current).text)))
        ELSE IF Slice(s1.source, s1.start, s1.current).panic THEN ScanPanic(s1)
        ELSE NumberToken(s1, ParseI64(Slice(s1.source, s1.start, s1.current).text)))

\* scanner.rs 223-228: the loop over the characters of a string
RECURSIVE StringBody(_)
StringBody(s) ==
    IF peek(s) = NoneUnwrap THEN ScanPanic(s)
    ELSE IF peek(s) # "\"" /\ ~is_at_end(s)
    THEN StringBody([s EXCEPT !.line = IF peek(s) = "\n" THEN @ + 1 ELSE @, !.current = @ + 1])
    ELSE ScanOk(s)

\* scanner.rs 222-241
string(s) ==
    TryScan(StringBody(s), LAMBDA s1 :
        IF is_at_end(s1) THEN ScanErr(s1, Msg("Unterminated string", << >>))
        ELSE IF Slice(s1.source, s1.start + 1, s1.current).panic THEN ScanPanic(s1)
        ELSE add_token_lit([s1 EXCEPT !.current = @ + 1], "StringLit",
                           [lk |-> "StringValue", s |-> Slice(s1.source, s1.start + 1, s1.current).text]))

\* scanner.rs 98-107: the characters that are a token by themselves
SingleChar ==
    << <<"(", "LeftParen">>, <<")", "RightParen">>, <<"{", "LeftBrace">>, <<"}", "RightBrace">>,
       <<",", "Comma">>, <<".", "Dot">>, <<"-", "Minus">>, <<"+", "Plus">>, <<";", "SemiColon">>,
       <<"*", "Star">> >>

\* scanner.rs 96-175: c is the character advance() returned, s the scanner after it
ScanChar(c, s) ==
    CASE c = NoneUnwrap -> ScanPanic(s)
      [] \E i \in 1..Len(SingleChar) : SingleChar[i][1] = c ->
            add_token(s, SingleChar[CHOOSE i \in 1..Len(SingleChar) : SingleChar[i][1] = c][2])
      [] c = "!" -> char_match(s, "=", "BangEqual", "Bang")
      [] c = "=" -> char_match(s, "=", "EqualEqual", "Equal")
      [] c = "<" -> char_match(s, "=", "LessEqual", "Less")
      [] c = ">" -> char_match(s, "=", "GreaterEqual", "Greater")
      [] c = "/" -> IF is_at_end(s) THEN add_token(s, "Slash")
                    ELSE IF Nth(s.source, s.current) = NoneUnwrap THEN ScanPanic(s)
                    ELSE IF Nth(s.source, s.current) = "/" THEN SkipComment([s EXCEPT !.current = @ + 1])
                    ELSE add_token(s, "Slash")
      [] c \in {" ", "\r", "\t"} -> ScanOk(s)
      [] c = "\n" -> ScanOk([s EXCEPT !.line = @ + 1])
      [] c = "\"" -> string(s)
      [] OTHER -> IF is_digit(c) THEN number(s)
                  ELSE IF is_alpha(c) THEN identifier(s)
                  ELSE ScanErr(s, Msg("unrecognised char at line {}: {}", <<NatToString(s.line), <<c>>>>))

\* scanner.rs 96-97 with 271-276: advance(), then the match on the character
scan_token(s) == ScanChar(Nth(s.source, s.current), [s EXCEPT !.current = @ + 1])

\* scanner.rs 69-72: the match on scan_token's result
PushError(r) ==
    IF r.res = "Err" THEN ScanOk([r.s EXCEPT !.errors = Append(@, r.msg), !.error_at = Append(@, r.s.start)])
    ELSE r

\* an iteration that leaves start where it is
ScanStepKeepingStart(s) == PushError(scan_token(s))

\* scanner.rs 67-73: one iteration of the loop of scan_tokens
ScanStep(s) == PushError(scan_token([s EXCEPT !.start = s.current]))

\* an Eof token that is always on line 1
ScanEndFirstLine(s) ==
    IF Len(s.errors) > 0
    THEN [s |-> [s EXCEPT !.tokens = Append(@, Token("Eof", << >>, NoLiteral, 1)),
                          !.spans = Append(@, [start |-> s.start, current |-> s.current])],
          res |-> "Err", msg |-> [joined |-> s.errors, sep |-> "after each"]]
    ELSE [s |-> [s EXCEPT !.tokens = Append(@, Token("Eof", << >>, NoLiteral, 1)),
                          !.spans = Append(@, [start |-> s.start, current |-> s.current])],
          res |-> "Ok"]

\* scanner.rs 75-92: the Eof token and the result of scan_tokens
ScanEnd(s) ==
    IF Len(s.errors) > 0
    THEN [s |-> [s EXCEPT !.tokens = Append(@, Token("Eof", << >>, NoLiteral, s.line)),
                          !.spans = Append(@, [start |-> s.start, current |-> s.current])],
          res |-> "Err", msg |-> [joined |-> s.errors, sep |-> "after each"]]
    ELSE [s |-> [s EXCEPT !.tokens = Append(@, Token("Eof", << >>, NoLiteral, s.line)),
                          !.spans = Append(@, [start |-> s.start, current |-> s.current])],
          res |-> "Ok"]

\* scanner.rs 66-74: at most n iterations of the loop of scan_tokens, from
\* the result r of the iterations before them; an iteration advances by a
\* character at least, so the loop ends within source.len() iterations
RECURSIVE ScanLoop(_, _)
ScanLoop(r, n) ==
    IF n = 0 \/ r.res # "Ok" THEN r
    ELSE IF n = 1 THEN (IF is_at_end(r.s) THEN r ELSE ScanStep(r.s))
    ELSE ScanLoop(ScanLoop(r, n \div 2), n - (n \div 2))

\* scanner.rs 65-93
scan_tokens(s) == TryScan(ScanLoop(ScanOk(s), ByteLen(s.source)), LAMBDA s1 : ScanEnd(s1))

-----------------------------------------------------------------------------
(* parser.rs: recursive descent over Parser { tokens, current }; current   *)
(* is 0-based as in the code.  stmts and errs are the locals of parse,     *)
(* kept with the parser.  An optional expression or statement is << >>     *)
(* (None) or <<x>> (Some(x)).  skips is history: for each error, current   *)
(* when declaration returned it and current when synchronize returned.     *)

\* parser.rs 18-23
Parser_new(tokens) ==
    [tokens |-> tokens, current |-> 0, stmts |-> << >>, errs |-> << >>, skips |-> << >>]

ParseOk(p, v) == [p |-> p, res |-> "Ok", value |-> v]
ParseErr(p, msg) == [p |-> p, res |-> "Err", msg |-> Msg(msg, << >>)]
ParsePanic(p, msg) == [p |-> p, res |-> "Panic", msg |-> Msg(msg, << >>)]

\* the ? of a parsing function
TryParse(r, K(_)) == IF r.res # "Ok" THEN r ELSE K(r)

Some(r) == IF r.res = "Ok" THEN [r EXCEPT !.value = <<@>>] ELSE r

\* parser.rs 505-507
Parser_peek(p) == p.tokens[p.current + 1]

\* parser.rs 509-511
Parser_previous(p) == p.tokens[p.current]

\* parser.rs 513-515
Parser_is_at_end(p) == Parser_peek(p).token_type = "Eof"

\* parser.rs 497-503: the parser after advance(); the token returned is its previous()
Parser_advance(p) == IF ~Parser_is_at_end(p) THEN [p EXCEPT !.current = @ + 1] ELSE p

\* parser.rs 461-463
check(p, typ) == Parser_peek(p).token_type = typ

\* parser.rs 465-476: whether match_token returns true, and then the parser has advanced
match_token(p, typ) == ~Parser_is_at_end(p) /\ Parser_peek(p).token_type = typ

\* parser.rs 487-495
match_tokens(p, typs) == \E typ \in typs : match_token(p, typ)

\* parser.rs 477-485
consume(p, token_type, msg) ==
    IF Parser_peek(p).token_type = token_type
    THEN ParseOk(Parser_advance(p), Parser_previous(Parser_advance(p)))
    ELSE ParseErr(p, msg)

\* expr.rs 46-51 with x as f32: the decimal num / den as an f32
unwrap_as_f32(literal) ==
    IF literal.lk # "FValue" THEN [res |-> "Panic", msg |-> "could not unwrap as f32"]
    ELSE IF Exact(Number(literal.num, literal.den)) THEN [res |-> "Ok", value |-> Number(literal.num, literal.den)]
    ELSE [res |-> "Stop"]

\* expr.rs 83-93
from_token(token) ==
    CASE token.token_type = "Number" -> unwrap_as_f32(token.literal)
      [] token.token_type = "StringLit" ->
            IF token.literal.lk = "StringValue" THEN [res |-> "Ok", value |-> StringValue(token.literal.s)]
            ELSE [res |-> "Panic", msg |-> "could not unwrap as string"]
      [] token.token_type = "False" -> [res |-> "Ok", value |-> False]
      [] token.token_type = "True" -> [res |-> "Ok", value |-> True]
      [] token.token_type = "Nil" -> [res |-> "Ok", value |-> Nil]
      [] OTHER -> [res |-> "Panic", msg |-> "could not create LiteralValue from {:?}"]

\* parser.rs 64, 411: the most parameters and arguments
MaxArguments == 255

\* parser.rs 280-375: the binary operators of or, and, equality, comparison, term and factor
BinaryLevels ==
    << [fn |-> "or", types |-> {"Or"}], [fn |-> "and", types |-> {"And"}],
       [fn |-> "equality", types |-> {"BangEqual", "EqualEqual"}],
       [fn |-> "comparison", types |-> {"Greater", "GreaterEqual", "Less", "LessEqual"}],
       [fn |-> "term", types |-> {"Minus", "Plus"}], [fn |-> "factor", types |-> {"Slash", "Star"}] >>

RECURSIVE assignment(_)
RECURSIVE binary(_, _)
RECURSIVE binary_loop(_, _, _)
RECURSIVE unary(_)
RECURSIVE call_loop(_, _)
RECURSIVE ArgumentLoop(_, _)
RECURSIVE declaration(_)
RECURSIVE statement(_)
RECURSIVE block_loop(_, _)

\* parser.rs 255-257
expression(p) == assignment(p)

\* parser.rs 429-459
primary(p) ==
    CASE Parser_peek(p).token_type = "LeftParen" ->
            TryParse(expression(Parser_advance(p)), LAMBDA expr :
                TryParse(consume(expr.p, "RightParen", "Expected ')'"), LAMBDA rp :
                    ParseOk(rp.p, Grouping(expr.value))))
      [] Parser_peek(p).token_type \in {"False", "True", "Nil", "Number", "StringLit"} ->
            IF from_token(Parser_peek(p)).res = "Ok"
            THEN ParseOk(Parser_advance(p), Literal(from_token(Parser_peek(p)).value))
            ELSE IF from_token(Parser_peek(p)).res = "Panic"
            THEN ParsePanic(Parser_advance(p), from_token(Parser_peek(p)).msg)
            ELSE [p |-> p, res |-> "Stop"]
      [] Parser_peek(p).token_type = "Identifier" ->
            ParseOk(Parser_advance(p), Variable(Parser_previous(Parser_advance(p))))
      [] OTHER -> ParseErr(p, "Expected expression")

\* an iteration of the loops over parameters and arguments that goes on has
\* consumed two tokens at least, so the tokens left bound the iterations
MostIterations(p) == (Len(p.tokens) - p.current) \div 2 + 1

\* the iterations of the first part of n >= 2 of them
FirstIterations(n) == IF n = 2 THEN 1 ELSE (3 * n) \div 8

\* parser.rs 409-417: one iteration of the loop over the arguments; Break
\* when the loop is left
ArgumentStep(p, arguments) ==
    TryParse(expression(p), LAMBDA arg :
        IF Len(arguments) + 1 >= MaxArguments
        THEN [p |-> arg.p, res |-> "Err",
              msg |-> Msg("line: {} cannot have more than 255 arguments",
                          <<NatToString(Parser_peek(arg.p).line_num)>>)]
        ELSE IF match_token(arg.p, "Comma")
        THEN ParseOk(Parser_advance(arg.p), Append(arguments, arg.value))
        ELSE [p |-> arg.p, res |-> "Break", value |-> Append(arguments, arg.value)])

\* the loop that was left has a value
Broken(r) == IF r.res = "Break" THEN ParseOk(r.p, r.value) ELSE r

\* parser.rs 408-418: at most n >= 1 iterations of the loop, from the result
\* r of the iterations before them
ArgumentLoop(r, n) ==
    CASE r.res # "Ok" -> r
      [] n = 1 -> ArgumentStep(r.p, r.value)
      [] OTHER -> ArgumentLoop(ArgumentLoop(r, FirstIterations(n)), n - FirstIterations(n))

\* parser.rs 407-419: the loop over the arguments
arguments_loop(p, arguments) == Broken(ArgumentLoop(ParseOk(p, arguments), MostIterations(p)))

\* parser.rs 405-427
finish_call(p, callee) ==
    TryParse(IF ~check(p, "RightParen") THEN arguments_loop(p, << >>) ELSE ParseOk(p, << >>),
             LAMBDA arguments :
        TryParse(consume(arguments.p, "RightParen", "Expect ')' after function arguments"), LAMBDA rp :
            ParseOk(rp.p, Call(callee, Token("LeftParen", << >>, NoLiteral, 0), arguments.value))))

\* parser.rs 393-399: the loop of call
call_loop(p, expr) ==
    IF match_token(p, "LeftParen")
    THEN TryParse(finish_call(Parser_advance(p), expr), LAMBDA called : call_loop(called.p, called.value))
    ELSE ParseOk(p, expr)

\* parser.rs 390-403
call(p) == TryParse(primary(p), LAMBDA expr : call_loop(expr.p, expr.value))

\* parser.rs 377-388
unary(p) ==
    IF match_tokens(p, {"Bang", "Minus"})
    THEN TryParse(unary(Parser_advance(p)), LAMBDA rhs :
             ParseOk(rhs.p, Unary(Parser_previous(Parser_advance(p)), rhs.value)))
    ELSE call(p)

\* a loop that parses its right operand at its own level
BinaryLoopRight(level, p, expr) ==
    IF match_tokens(p, BinaryLevels[level].types)
    THEN TryParse(binary(level, Parser_advance(p)), LAMBDA right :
             ParseOk(right.p,
                     IF level <= 2
                     THEN Logical(expr, Parser_previous(Parser_advance(p)), right.value)
                     ELSE Binary(expr, Parser_previous(Parser_advance(p)), right.value)))
    ELSE ParseOk(p, expr)

\* the while loops of parser.rs 283-292, 300-309, 316-325, 333-342, 350-359, 367-376
binary_loop(level, p, expr) ==
    IF match_tokens(p, BinaryLevels[level].types)
    THEN TryParse(binary(level + 1, Parser_advance(p)), LAMBDA right :
             binary_loop(level, right.p,
                         IF level <= 2
                         THEN Logical(expr, Parser_previous(Parser_advance(p)), right.value)
                         ELSE Binary(expr, Parser_previous(Parser_advance(p)), right.value)))
    ELSE ParseOk(p, expr)

\* parser.rs 281-293, 298-310, 314-326, 331-343, 348-360, 365-377: the loop
\* of a level after its first operand, parsed with ?
BinaryRest(level, r) == IF r.res # "Ok" THEN r ELSE binary_loop(level, r.p, r.value)

\* parser.rs 280-375: or (level 1), and, equality, comparison, term, factor (level 6)
binary(level, p) ==
    CASE level = 1 ->
            BinaryRest(1, BinaryRest(2, BinaryRest(3, BinaryRest(4, BinaryRest(5,
                BinaryRest(6, unary(p)))))))
      [] level = 2 ->
            BinaryRest(2, BinaryRest(3, BinaryRest(4, BinaryRest(5, BinaryRest(6, unary(p))))))
      [] level = 3 -> BinaryRest(3, BinaryRest(4, BinaryRest(5, BinaryRest(6, unary(p)))))
      [] level = 4 -> BinaryRest(4, BinaryRest(5, BinaryRest(6, unary(p))))
      [] level = 5 -> BinaryRest(5, BinaryRest(6, unary(p)))
      [] level = 6 -> BinaryRest(6, unary(p))
      [] OTHER -> unary(p)

\* an assignment that looks at its target before it parses the value
AssignmentTargetFirst(p) ==
    TryParse(binary(1, p), LAMBDA expr :
        IF match_token(expr.p, "Equal")
        THEN IF expr.value.k # "Variable"
             THEN ParseErr(Parser_advance(expr.p), "invalid assignment target.")
             ELSE TryParse(assignment(Parser_advance(expr.p)), LAMBDA value :
                      ParseOk(value.p, Assign(expr.value.name, value.value)))
        ELSE expr)

\* parser.rs 259-278
assignment(p) ==
    TryParse(binary(1, p), LAMBDA expr :
        IF match_token(expr.p, "Equal")
        THEN TryParse(assignment(Parser_advance(expr.p)), LAMBDA value :
                 IF expr.value.k = "Variable"
                 THEN ParseOk(value.p, Assign(expr.value.name, value.value))
                 ELSE ParseErr(value.p, "invalid assignment target."))
        ELSE expr)

\* parser.rs 247-253
expression_statement(p) ==
    TryParse(expression(p), LAMBDA expr :
        TryParse(consume(expr.p, "SemiColon", "Expected ';' after value."), LAMBDA semi :
            ParseOk(semi.p, Expression(expr.value))))

\* parser.rs 239-245
print_statement(p) ==
    TryParse(expression(p), LAMBDA expr :
        TryParse(consume(expr.p, "SemiColon", "Expected ';' after value."), LAMBDA semi :
            ParseOk(semi.p, PrintStmt(expr.value))))

\* parser.rs 227-230: the loop of block_statement, then the closing brace
block_loop(p, statements) ==
    IF ~check(p, "RightBrace") /\ ~Parser_is_at_end(p)
    THEN TryParse(declaration(p), LAMBDA decl : block_loop(decl.p, Append(statements, decl.value)))
    ELSE TryParse(consume(p, "RightBrace", "Expected '}'."), LAMBDA rb :
             ParseOk(rb.p, Block(statements)))

\* parser.rs 224-237
block_statement(p) == block_loop(p, << >>)

\* parser.rs 203-222
if_statement(p) ==
    TryParse(consume(p, "LeftParen", "Expected '('."), LAMBDA lp :
        TryParse(expression(lp.p), LAMBDA predicate :
            TryParse(consume(predicate.p, "RightParen", "Expected ')'"), LAMBDA rp :
                TryParse(statement(rp.p), LAMBDA then :
                    TryParse(IF match_token(then.p, "Else") THEN Some(statement(Parser_advance(then.p)))
                             ELSE ParseOk(then.p, << >>),
                             LAMBDA els : ParseOk(els.p, IfStmt(predicate.value, then.value, els.value)))))))

\* parser.rs 191-201
while_statement(p) ==
    TryParse(consume(p, "LeftParen", "Expected '('."), LAMBDA lp :
        TryParse(expression(lp.p), LAMBDA condition :
            TryParse(consume(condition.p, "RightParen", "Expected ')'."), LAMBDA rp :
                TryParse(statement(rp.p), LAMBDA body :
                    ParseOk(body.p, WhileStmt(condition.value, body.value))))))

\* parser.rs 93-106
var_declaration(p) ==
    TryParse(consume(p, "Identifier", "Expected variable name"), LAMBDA token :
        TryParse(IF match_token(token.p, "Equal") THEN expression(Parser_advance(token.p))
                 ELSE ParseOk(token.p, Literal(Nil)),
                 LAMBDA initializer :
            TryParse(consume(initializer.p, "SemiColon", "Expected ';' after variable declaration"),
                     LAMBDA semi : ParseOk(semi.p, Var(token.value, initializer.value)))))

\* parser.rs 161-188: the statement a for loop stands for
Desugar(initializer, condition, increment, body) ==
    LET incremented == IF Len(increment) > 0 THEN Block(<<body, Expression(increment[1])>>) ELSE body
        cond == IF Len(condition) > 0 THEN condition[1] ELSE Literal(True)
    IN IF Len(initializer) > 0
       THEN Block(<<initializer[1], WhileStmt(cond, incremented)>>)
       ELSE WhileStmt(cond, incremented)

\* parser.rs 125-189
for_statement(p) ==
    TryParse(consume(p, "LeftParen", "Expected '(' after 'for'."), LAMBDA lp :
     TryParse(IF match_token(lp.p, "SemiColon") THEN ParseOk(Parser_advance(lp.p), << >>)
              ELSE IF match_token(lp.p, "Var") THEN Some(var_declaration(Parser_advance(lp.p)))
              ELSE Some(expression_statement(lp.p)),
              LAMBDA initializer :
      TryParse(IF ~check(initializer.p, "SemiColon") THEN Some(expression(initializer.p))
               ELSE ParseOk(initializer.p, << >>),
               LAMBDA condition :
       TryParse(consume(condition.p, "SemiColon", "Expected ';' after loop condition"), LAMBDA semi :
        TryParse(IF ~check(semi.p, "SemiColon") THEN Some(expression(semi.p))
                 ELSE ParseOk(semi.p, << >>),
                 LAMBDA increment :
         TryParse(consume(increment.p, "RightParen", "Expected ')' after for clauses"), LAMBDA rp :
          TryParse(statement(rp.p), LAMBDA body :
              ParseOk(body.p, Desugar(initializer.value, condition.value, increment.value,
                                      body.value)))))))))

\* parser.rs 108-123
statement(p) ==
    CASE match_token(p, "Print") -> print_statement(Parser_advance(p))
      [] match_token(p, "LeftBrace") -> block_statement(Parser_advance(p))
      [] match_token(p, "If") -> if_statement(Parser_advance(p))
      [] match_token(p, "While") -> while_statement(Parser_advance(p))
      [] match_token(p, "For") -> for_statement(Parser_advance(p))
      [] OTHER -> expression_statement(p)

\* parser.rs 64-74: one iteration of the loop over the parameters
ParameterStep(p, params) ==
    IF Len(params) >= MaxArguments
    THEN [p |-> p, res |-> "Err",
          msg |-> Msg("Line {}: can't have more than 255 parameters",
                      <<NatToString(Parser_peek(p).line_num)>>)]
    ELSE TryParse(consume(p, "Identifier", "Expected parameter name"), LAMBDA param :
             IF match_token(param.p, "Comma")
             THEN ParseOk(Parser_advance(param.p), Append(params, param.value))
             ELSE [p |-> param.p, res |-> "Break", value |-> Append(params, param.value)])

\* parser.rs 63-75: at most n >= 1 iterations of the loop, from the result r
\* of the iterations before them
RECURSIVE ParameterLoop(_, _)
ParameterLoop(r, n) ==
    CASE r.res # "Ok" -> r
      [] n = 1 -> ParameterStep(r.p, r.value)
      [] OTHER -> ParameterLoop(ParameterLoop(r, FirstIterations(n)), n - FirstIterations(n))

\* parser.rs 62-76: the loop over the parameters
parameters(p, params) == Broken(ParameterLoop(ParseOk(p, params), MostIterations(p)))

\* parser.rs 57-91
function(p) ==
    TryParse(consume(p, "Identifier", "Expected Function name"), LAMBDA name :
     TryParse(consume(name.p, "LeftParen", "Expected '(' after Function name"), LAMBDA lp :
      TryParse(IF ~check(lp.p, "RightParen") THEN parameters(lp.p, << >>) ELSE ParseOk(lp.p, << >>),
               LAMBDA params :
       TryParse(consume(params.p, "RightParen", "Expected ')' after parameters."), LAMBDA rp :
        TryParse(consume(rp.p, "LeftBrace", "Expected '{' before Function body."), LAMBDA lb :
         TryParse(block_statement(lb.p), LAMBDA body :
             ParseOk(body.p, Function(name.value, params.value, body.value.statements))))))))

\* parser.rs 47-55
declaration(p) ==
    CASE match_token(p, "Var") -> var_declaration(Parser_advance(p))
      [] match_token(p, "Fun") -> function(Parser_advance(p))
      [] OTHER -> statement(p)

\* parser.rs 524-535: the loop of synchronize
RECURSIVE SkipToBoundary(_)
SkipToBoundary(p) ==
    IF Parser_is_at_end(p) THEN p
    ELSE IF Parser_previous(p).token_type = "SemiColon" THEN p
    ELSE IF Parser_peek(p).token_type \in {"Class", "Fun", "Var", "For", "If", "While", "Print", "Return"}
    THEN p
    ELSE SkipToBoundary(Parser_advance(p))

\* parser.rs 521-536
\* a synchronize that looks for the boundary before it advances
SynchronizeAtBoundary(p) ==
    IF p.current > 0 /\ Parser_previous(p).token_type = "SemiColon" THEN p
    ELSE SkipToBoundary(Parser_advance(p))

synchronize(p) == SkipToBoundary(Parser_advance(p))

\* parser.rs 31-37: the match on declaration's result
PushStmt(r) ==
    CASE r.res = "Ok" -> [p |-> [r.p EXCEPT !.stmts = Append(@, r.value)], res |-> "Ok"]
      [] r.res = "Err" ->
            [p |-> [synchronize(r.p) EXCEPT
                        !.errs = Append(@, r.msg),
                        !.skips = Append(@, [from |-> r.p.current, to |-> synchronize(r.p).current])],
             res |-> "Ok"]
      [] OTHER -> r

\* parser.rs 29-38: one iteration of the loop of parse
ParseStep(p) == PushStmt(declaration(p))

\* parser.rs 40-44: the result of parse; errs.join("\n")
ParseEnd(p) ==
    IF Len(p.errs) # 0 THEN [p |-> p, res |-> "Err", msg |-> [joined |-> p.errs, sep |-> "between"]]
    ELSE ParseOk(p, p.stmts)

\* parser.rs 25-45
RECURSIVE parse(_)
parse(p) == IF Parser_is_at_end(p) THEN ParseEnd(p) ELSE TryParse(ParseStep(p), LAMBDA r : parse(r.p))

-----------------------------------------------------------------------------
(* The interpreter as run_prompt drives it (main.rs 45-73): one            *)
(* Interpreter for the session, one interpret() call per line.             *)

\* the seconds since the epoch that clock may read
ClockTimes == {1700000000, 1700000001}

Globals == define(<<Environment_new>>, 1, <<"c", "l", "o", "c", "k">>,
                  Callable(<<"c", "l", "o", "c", "k">>, 0, [kind |-> "clock_impl"]))

\* interpreter.rs 25-37: Interpreter::new()
InterpreterNew ==
    /\ envs = Globals
    /\ interpreter = [environment |-> 1]

\* the session's state after interpret() returned r
Returns(r) ==
    /\ r.res # "Stop"
    /\ envs' = r.w.envs
    /\ interpreter' = [environment |-> r.environment]
    /\ out' = r.w.out
    /\ log' = r.w.log
    /\ result' = IF r.res = "Ok" THEN [res |-> "Ok"] ELSE [res |-> r.res, msg |-> r.msg]
    /\ pc' = IF r.res = "Panic" THEN "crashed" ELSE "prompt"

\* main.rs 40 with interpreter.rs 48-163: interpreter.interpret(stmts) on the session's interpreter
InterpretStmts(stmts, now) ==
    Returns(Interpret(stmts, interpreter.environment,
                      [envs |-> envs, out |-> out, fuel |-> MaxFuel, now |-> now, calls |-> 0,
                       log |-> <<[ev |-> "begin", stmts |-> stmts, envs |-> envs,
                                  environment |-> interpreter.environment, out |-> out]>>]))

-----------------------------------------------------------------------------
(* The programs interpreted: statements as the parser builds them, over    *)
(* the names a (a variable), f (a function), u (never declared) and clock. *)

Ident(lexeme) == Token("Identifier", lexeme, NoLiteral, 1)
Operator(token_type, lexeme) == Token(token_type, lexeme, NoLiteral, 1)
Paren == Token("LeftParen", << >>, NoLiteral, 0)

a == Ident(<<"a">>)
f == Ident(<<"f">>)
u == Ident(<<"u">>)
clock == Ident(<<"c", "l", "o", "c", "k">>)

Plus == Operator("Plus", <<"+">>)
Minus == Operator("Minus", <<"-">>)
Less == Operator("Less", <<"<">>)
Bang == Operator("Bang", <<"!">>)
Or == Operator("Or", <<"o", "r">>)
And == Operator("And", <<"a", "n", "d">>)

Lit(n) == Literal(Number(n, 1))
LitX == Literal(StringValue(<<"x">>))
SetA == Assign(a, Lit(2))

Operands == {Lit(1), Variable(a), Variable(u), Variable(f)}

Exprs ==
    Operands
    \cup {LitX, Literal(Nil)}
    \cup {Assign(n, Lit(2)) : n \in {a, u}}
    \cup {Assign(n, Variable(m)) : n, m \in {a, u}}
    \cup {Logical(l, op, r) : l \in {Literal(True), Literal(False), Literal(Nil), Lit(0), Lit(1), LitX,
                                    Literal(StringValue(<< >>)), Variable(f), Variable(u)},
                              op \in {Or, And}, r \in {SetA, Variable(a)}}
    \cup {Binary(Variable(a), Plus, r) : r \in {Lit(1), LitX}}
    \cup {Unary(op, Variable(a)) : op \in {Minus, Bang}}
    \cup {Grouping(Variable(a))}
    \cup {Call(Variable(c), Paren, args) : c \in {f, a}, args \in {<< >>, <<SetA>>}}
    \cup {Call(Variable(clock), Paren, args) : args \in {<< >>, <<SetA>>}}

Funs ==
    {Function(f, << >>, body) : body \in {<< >>, <<Expression(Variable(a))>>,
                                          <<Expression(Variable(u))>>,
                                          <<Expression(Variable(u)), Expression(Lit(1))>>,
                                          <<Var(a, Lit(3))>>}}
    \cup {Function(f, <<a>>, <<PrintStmt(Variable(a)), Expression(SetA)>>)}

Fails == Expression(Variable(u))
CallF == PrintStmt(Call(Variable(f), Paren, << >>))

Blocks ==
    {Block(<<Var(a, Lit(3)), s>>) : s \in {PrintStmt(Variable(a)), Fails, CallF, Block(<<Fails>>)}}
    \cup {Block(<<Var(a, Lit(1)), Function(f, << >>, <<Expression(Variable(a))>>),
                  Block(<<Var(a, Lit(2)), CallF>>)>>)}
    \cup {Block(<<Expression(SetA), PrintStmt(Variable(a))>>)}
    \cup {Block(<<Var(a, Lit(3)), Expression(SetA), PrintStmt(Variable(a))>>)}

Branches ==
    {IfStmt(c, Block(<<s>>), <<PrintStmt(Lit(0))>>) : c \in {Variable(a), Literal(Nil)}, s \in {Fails}}
    \cup {IfStmt(Variable(f), PrintStmt(Lit(1)), << >>)}

Loops ==
    {WhileStmt(Binary(Variable(a), Less, Lit(3)),
               Block(<<PrintStmt(Variable(a)), Expression(Assign(a, Binary(Variable(a), Plus, Lit(1))))>>)),
     WhileStmt(Literal(True), Block(<<Fails>>))}

Stmts ==
    {PrintStmt(e) : e \in Exprs}
    \cup {Var(a, e) : e \in {Lit(1), Variable(u)}}
    \cup Funs \cup Blocks \cup Branches \cup Loops

first == Ident(<<"p">>)
second == Ident(<<"q">>)

\* { var a = 1; fun f(p, q) { q; } print f(a = 2, a); }
TwoArguments ==
    Block(<<Var(a, Lit(1)), Function(f, <<first, second>>, <<Expression(Variable(second))>>),
            PrintStmt(Call(Variable(f), Paren, <<SetA, Variable(a)>>))>>)

\* var a = 1; fun f(a) { print a; a = 3; } print f(2); print a;
ShadowingParameter ==
    <<Var(a, Lit(1)),
      Function(f, <<a>>, <<PrintStmt(Variable(a)), Expression(Assign(a, Lit(3)))>>),
      PrintStmt(Call(Variable(f), Paren, <<Lit(2)>>)),
      PrintStmt(Variable(a))>>

\* the statement lists of one line
Programs ==
    {<<s>> : s \in Stmts}
    \cup {<<PrintStmt(Lit(1)), s, PrintStmt(Lit(2))>> : s \in {Fails, Var(a, Lit(1))}}
    \cup {<<Var(a, Lit(1)), PrintStmt(Binary(SetA, Plus, r)), PrintStmt(Variable(a))>> :
              r \in {Variable(u), Lit(1)}}
    \cup {<<TwoArguments>>, ShadowingParameter}

IdleScanner == Scanner_new(<< >>)
IdleParser == Parser_new(<< >>)
IdleRun == [stages |-> << >>, envs |-> << >>, environment |-> 0, out |-> << >>]

InitInterpret ==
    /\ pc = "prompt"
    /\ scanner = IdleScanner
    /\ parser = IdleParser
    /\ InterpreterNew
    /\ out = << >>
    /\ result = [res |-> "None"]
    /\ lines = 0
    /\ log = << >>
    /\ run = IdleRun

\* one line of the session, already parsed
InterpretLine ==
    \E stmts \in Programs, now \in ClockTimes :
        /\ pc = "prompt"
        /\ lines < MaxLines
        /\ lines' = lines + 1
        /\ InterpretStmts(stmts, now)
        /\ UNCHANGED <<scanner, parser, run>>

NextInterpret == InterpretLine

SpecInterpret == InitInterpret /\ [][NextInterpret]_vars

-----------------------------------------------------------------------------
(* The scanner alone, one scan_token per step, on every source text of at  *)
(* most MaxSourceLen characters over ScanAlphabet.                         *)

MaxSourceLen == 3

\* the text of a reserved word
KW(token_type) ==
    get_keywords_hashmap[CHOOSE i \in 1..Len(get_keywords_hashmap) :
                             get_keywords_hashmap[i][2] = token_type][1]

\* the words, separated by single spaces
RECURSIVE Words(_)
Words(ws) == IF Len(ws) = 0 THEN << >>
             ELSE IF Len(ws) = 1 THEN ws[1]
             ELSE ws[1] \o <<" ">> \o Words(Tail(ws))

N(d) == <<Digit(d), ".", "0">>

\* the kinds of the 16 reserved words
Keywords == {get_keywords_hashmap[i][2] : i \in 1..Len(get_keywords_hashmap)}

\* source texts of words: the reserved words, words that start or end with
\* one, the lines of tests::get_identifier and tests::get_keywords, and
\* letters outside ASCII
WordSources ==
    {KW(k) : k \in Keywords} \cup {KW(k) \o <<"a">> : k \in Keywords}
    \cup {<<"_">> \o KW(k) : k \in Keywords}
    \cup
    { <<"v", "a", "r", "i", "a", "b", "l", "e">>,
      <<"t", "h", "i", "s", "_", "i", "s", "_", "a", "_", "v", "a", "r">>,
      <<"t", "h", "i", "s", "_", "i", "s", "_", "a", "_", "v", "a", "r", " ", "=", " ", "1", "2", ";">>,
      <<"v", "a", "r", " ", "t", "h", "i", "s", "_", "i", "s", "_", "a", "_", "v", "a", "r", " ", "=", " ", "1", "2", ";", "\n", "w", "h", "i", "l", "e", " ", "t", "r", "u", "e", " ", "{", " ", "p", "r", "i", "n", "t", " ", "3", " ", "}", ";">>,
      <<"I", "f">>,
      <<"Z", "_", "A", "1", "(">>,
      <<"o", "r", "1", ".", "o", "r">>,
      <<"a", "1", " ", "1", "a">>,
      <<"_">>,
      <<"_", "_", "1">>,
      <<"o", "r", "\n", "i", "f">>,
      <<"f", "o", "r", "(", "f", "u", "n">>,
      <<"U+0161">>,
      <<"U+0161", "a", "a", " ">>,
      <<"U+00E9", "a">>,
      <<"U+00E9", " ", "v", "a", "r", " ">> }

\* scanner.rs 109-143: the characters that `=` may follow in one token
TwoCharCandidates == {"!", "=", "<", ">"}

\* source texts of operators: a candidate alone, before another character,
\* before `=` and a third character, the line of tests::handle_two_char_token,
\* and candidates after a character of two bytes
OperatorSources ==
    {<<c>> : c \in TwoCharCandidates}
    \cup {<<c, d>> : c \in TwoCharCandidates, d \in TwoCharCandidates \cup {"a", "1", " ", "\n", "("}}
    \cup {<<c, "=", d>> : c \in TwoCharCandidates, d \in {"=", "a", "<"}}
    \cup {<<c, " ", "=">> : c \in TwoCharCandidates}
    \cup { <<"!", " ", "!", "=", " ", "=", "=", " ", ">", "=">>,
           <<"U+00E9", "!", "=">>, <<"U+00E9", "<">>, <<"U+00E9", " ", " ", "!", "=">> }

ScanAlphabet == {"1", ".", "a", "\"", "\n", "=", "!", "/", "@", " ", "(", "U+00E9"}

\* longer source texts: several errors, a token after a character of two
\* bytes, numbers and strings of several characters
ScanExtras ==
    { <<"@", "a", "@", "\n", "@">>,
      <<"\"", "a", "@", "\"", "@", "\"", "a">>,
      <<"U+00E9", " ", " ", "(">>,
      <<"1", "1", ".", "1", "1">>,
      <<"1", ".", "1", ".", "1">>,
      <<"1", "1", ".", "a">>,
      <<"\"", "a", "\n", "1", "\n", "\"", "a">>,
      <<"/", "/", "@", "\"", "\n", "a">> }

ScanSources == UNION {[1..n -> ScanAlphabet] : n \in 0..MaxSourceLen} \cup ScanExtras \cup WordSources
               \cup OperatorSources

InitScanner ==
    /\ pc = "scan"
    /\ \E source \in ScanSources : scanner = Scanner_new(source)
    /\ parser = IdleParser
    /\ InterpreterNew
    /\ out = << >>
    /\ result = [res |-> "None"]
    /\ lines = 0
    /\ log = << >>
    /\ run = IdleRun

\* the scanner after a step of scan_tokens that returned r
Stepped(r) ==
    /\ scanner' = r.s
    /\ pc' = IF r.res = "Panic" THEN "crashed" ELSE IF r.res = "Ok" THEN pc ELSE "scanned"
    /\ result' = IF r.res = "Ok" THEN result ELSE [res |-> r.res, msg |-> r.msg]

\* scanner.rs 67-73: one iteration of the loop
ScanToken ==
    /\ pc = "scan"
    /\ ~is_at_end(scanner)
    /\ Stepped(ScanStep(scanner))
    /\ UNCHANGED <<parser, envs, interpreter, out, lines, log, run>>

\* scanner.rs 75-92: the loop has ended
ScanEof ==
    /\ pc = "scan"
    /\ is_at_end(scanner)
    /\ scanner' = ScanEnd(scanner).s
    /\ pc' = "scanned"
    /\ result' = IF ScanEnd(scanner).res = "Ok" THEN [res |-> "Ok"]
                 ELSE [res |-> "Err", msg |-> ScanEnd(scanner).msg]
    /\ UNCHANGED <<parser, envs, interpreter, out, lines, log, run>>

NextScanner == ScanToken \/ ScanEof

SpecScanner == InitScanner /\ [][NextScanner]_vars

-----------------------------------------------------------------------------
(* The REPL (main.rs 45-73) on source lines: each line is scanned, parsed  *)
(* and interpreted by run (main.rs 34-43) on the session's interpreter.    *)

\* var x = ten; fun addX(y) { x + y semi } print addX(five);
AddX(ten, five, semi) ==
    Words(<<KW("Var"), <<"x">>, <<"=">>, ten, <<";">>,
            KW("Fun"), <<"a", "d", "d", "X">>, <<"(">>, <<"y">>, <<")">>,
            <<"{">>, <<"x">>, <<"+">>, <<"y">>>> \o semi \o <<(<<"}">>),
            KW("Print"), <<"a", "d", "d", "X">>, <<"(">>, five, <<")">>, <<";">>>>)

AddXSource == AddX(<<"1", "0">>, <<"5">>, << >>)
AddXFloats == AddX(<<"1", "0", ".", "0">>, <<"5", ".", "0">>, << >>)
AddXSemicolon == AddX(<<"1", "0", ".", "0">>, <<"5", ".", "0">>, <<(<<";">>)>>)

\* var p = ten; print p; for (var k = from; k > one; k = k - one) { p = p * k; print p; }
Factorial(ten, from, one) ==
    Words(<<KW("Var"), <<"p">>, <<"=">>, ten, <<";">>, KW("Print"), <<"p">>, <<";">>,
            KW("For"), <<"(">>, KW("Var"), <<"k">>, <<"=">>, from, <<";">>, <<"k">>, <<">">>, one, <<";">>,
            <<"k">>, <<"=">>, <<"k">>, <<"-">>, one, <<")">>,
            <<"{">>, <<"p">>, <<"=">>, <<"p">>, <<"*">>, <<"k">>, <<";">>, KW("Print"), <<"p">>, <<";">>, <<"}">>>>)

FactorialSource == Factorial(<<"1", "0">>, <<"9">>, <<"1">>)
FactorialFloats == Factorial(N(5), N(4), N(1))

Sources ==
    { AddXSource, AddXFloats, AddXSemicolon, FactorialSource, FactorialFloats,
      Words(<<KW("Print"), N(1), <<";">>>>),
      Words(<<KW("Var"), <<"a">>, <<"=">>, N(1), <<";">>>>),
      Words(<<KW("Print"), <<"a">>, <<";">>>>),
      Words(<<<<"a">>, <<"=">>, N(2), <<";">>>>),
      Words(<<KW("Print"), N(1), <<";">>, KW("Print"), <<";">>>>),
      Words(<<KW("Print"), <<";">>, KW("Var"), <<"a">>, <<"=">>, N(3), <<";">>, KW("Print"), <<"a">>>>),
      Words(<<KW("Var"), <<"a">>, <<"=">>, N(3), <<";">>, KW("Print"), N(1), <<"+">>, <<";">>>>),
      Words(<<KW("Print"), N(1), <<";">>, <<"@">>>>),
      Words(<<KW("Var"), <<"a">>, <<"=">>, <<"\"", "x">>>>),
      Words(<<<<"{">>, KW("Var"), <<"a">>, <<"=">>, N(3), <<";">>, <<"u">>, <<";">>, <<"}">>>>),
      Words(<<KW("Fun"), <<"f">>, <<"(", ")">>, <<"{">>, <<"a">>, <<";">>, <<"}">>>>),
      Words(<<KW("Print"), <<"f", "(", ")">>, <<";">>>>),
      Words(<<KW("Print"), <<"1">>, <<";">>>>),
      Words(<<KW("Print"), <<"a">>, KW("Or"), <<"u">>, <<";">>>>),
      Words(<<KW("For"), <<"(">>, KW("Var"), <<"a">>, <<"=">>, N(0), <<";">>, <<"a">>, <<"<">>, N(2),
              <<";">>, <<"a">>, <<"=">>, <<"a">>, <<"+">>, N(1), <<")">>, KW("Print"), <<"a">>, <<";">>>>),
      Words(<<KW("If"), <<"(">>, <<"a">>, <<")">>, KW("Print"), N(1), <<";">>,
              KW("Else"), KW("Print"), N(2), <<";">>>>),
      Words(<<KW("While"), <<"(">>, <<"a">>, <<"<">>, N(2), <<")">>, <<"a">>, <<"=">>, <<"a">>,
              <<"+">>, N(1), <<";">>>>),
      Words(<<KW("Print"), <<"\"", "x", "\"">>, <<";">>, <<"/", "/">>, <<"a">>>>),
      Words(<<KW("Print"), <<"U+00E9">>, <<";">>>>),
      Words(<<KW("Print"), <<"c", "l", "o", "c", "k", "(", ")">>, <<";">>>>) }

Init ==
    /\ pc = "prompt"
    /\ scanner = IdleScanner
    /\ parser = IdleParser
    /\ InterpreterNew
    /\ out = << >>
    /\ result = [res |-> "None"]
    /\ lines = 0
    /\ log = << >>
    /\ run = IdleRun

\* a run that goes on to the next stage after an Err
RunNextAfterErr(res, next) ==
    IF res = "Panic" THEN "crashed" ELSE next

\* main.rs 36-40: the ? after a stage of run, next being the stage that follows
RunNext(res, next) ==
    IF res = "Panic" THEN "crashed" ELSE IF res # "Ok" THEN "prompt" ELSE next

\* main.rs 56-69 and 35: a line is read and run() makes a Scanner for it
ReadLine ==
    \E source \in Sources :
        /\ pc = "prompt"
        /\ lines < MaxLines
        /\ lines' = lines + 1
        /\ scanner' = Scanner_new(source)
        /\ parser' = IdleParser
        /\ result' = [res |-> "None"]
        /\ log' = << >>
        /\ run' = [stages |-> << >>, envs |-> envs, environment |-> interpreter.environment, out |-> out]
        /\ pc' = "scan"
        /\ UNCHANGED <<envs, interpreter, out>>

\* the state after scan_tokens returned r
Scanned(r) ==
    /\ scanner' = r.s
    /\ parser' = IF RunNext(r.res, "parse") = "parse" THEN Parser_new(r.s.tokens) ELSE parser
    /\ result' = IF r.res = "Ok" THEN result ELSE [res |-> r.res, msg |-> r.msg]
    /\ run' = [run EXCEPT !.stages = Append(@, [stage |-> "scan", res |-> r.res])]
    /\ pc' = RunNext(r.res, "parse")

\* main.rs 36-38: scanner.scan_tokens()? and Parser::new(tokens)
Scan ==
    /\ pc = "scan"
    /\ Scanned(scan_tokens(scanner))
    /\ UNCHANGED <<envs, interpreter, out, lines, log>>

\* the state after parse returned r
Parsed(r) ==
    /\ r.res # "Stop"
    /\ parser' = r.p
    /\ result' = IF r.res = "Ok" THEN result ELSE [res |-> r.res, msg |-> r.msg]
    /\ run' = [run EXCEPT !.stages = Append(@, [stage |-> "parse", res |-> r.res])]
    /\ pc' = RunNext(r.res, "interpret")

\* main.rs 39: parser.parse()?
Parse ==
    /\ pc = "parse"
    /\ Parsed(parse(parser))
    /\ UNCHANGED <<scanner, envs, interpreter, out, lines, log>>

\* main.rs 40-42: interpreter.interpret(stmts)?
InterpretParsed ==
    \E now \in ClockTimes :
        /\ pc = "interpret"
        /\ InterpretStmts(parser.stmts, now)
        /\ run' = [run EXCEPT !.stages = Append(@, [stage |-> "interpret", res |-> result'.res])]
        /\ UNCHANGED <<scanner, parser, lines>>

Next == ReadLine \/ Scan \/ Parse \/ InterpretParsed

Spec == Init /\ [][Next]_vars

-----------------------------------------------------------------------------
(* Properties of the interpreter, read off the history of the last         *)
(* interpret() call: log[1] is its "begin" event.                          *)

\* the names the programs use
Names == {a.lexeme, f.lexeme, u.lexeme, clock.lexeme}

\* the innermost frame on the chain of e that contains name, 0 if none does
RECURSIVE Resolve(_, _, _)
Resolve(es, e, name) ==
    IF name \in DOMAIN es[e].values THEN e
    ELSE IF es[e].enclosing = 0 THEN 0
    ELSE Resolve(es, es[e].enclosing, name)

IsWrite(i) == log[i].ev \in {"define", "assign"}

\* the frame a define or an assign wrote to
WriteFrame(i) ==
    IF log[i].ev = "define" THEN log[i].environment
    ELSE Resolve(log[i].before, log[i].environment, log[i].name)

\* the frame is freed by a later event than the i-th
FreedAfter(frame, i) ==
    \E k \in (i + 1)..Len(log) :
        \/ log[k].ev = "block" /\ log[k].res = "Ok" /\ log[k].frame = frame
        \/ log[k].ev = "leave" /\ log[k].frame = frame

\* the last event of the call that the i-th event (an "enter") starts
BodyEnd(i) ==
    IF \E k \in (i + 1)..Len(log) : log[k].ev = "leave" /\ log[k].frame = log[i].frame
    THEN CHOOSE k \in (i + 1)..Len(log) :
            /\ log[k].ev = "leave" /\ log[k].frame = log[i].frame
            /\ \A j \in (i + 1)..(k - 1) : ~(log[j].ev = "leave" /\ log[j].frame = log[i].frame)
    ELSE Len(log)

RECURSIVE Pure(_)
\* the expression has no Assign and no Call in it
Pure(e) ==
    CASE e.k \in {"Assign", "Call"} -> FALSE
      [] e.k \in {"Variable", "Literal"} -> TRUE
      [] e.k = "Grouping" -> Pure(e.expression)
      [] e.k = "Unary" -> Pure(e.right)
      [] e.k \in {"Binary", "Logical"} -> Pure(e.left) /\ Pure(e.right)

\* the lines the println events of the history wrote, in order
RECURSIVE Printed(_)
Printed(n) ==
    IF n = 0 THEN << >>
    ELSE IF log[n].ev = "println" THEN Append(Printed(n - 1), log[n].line)
    ELSE Printed(n - 1)

\* C1: every Block that was executed left the interpreter's environment
\* pointer equal to its value when the block was entered, whether its
\* statements completed or one of them failed (nested blocks included).
C1_BlockRestoresEnvironment ==
    \A i \in DOMAIN log : log[i].ev = "block" => log[i].left = log[i].entered

\* C2: whenever a runtime error was raised during interpret(), at top level
\* or inside a block, loop, branch or the body of a called function,
\* interpret() returned an error string and the interpreter did not crash.
C2_RuntimeErrorsAreReturned ==
    (\E i \in DOMAIN log : log[i].ev = "error") => (result.res = "Err" /\ pc # "crashed")

\* every read returned the value most recently written (by define or
\* assign) to the innermost frame on its chain that contains the name
ReadsLatestWrite ==
    \A i \in DOMAIN log : log[i].ev = "read" =>
        LET frame == Resolve(log[i].envs, log[i].environment, log[i].name)
            writes == {j \in 1..(i - 1) : IsWrite(j) /\ WriteFrame(j) = frame /\ log[j].name = log[i].name}
        IN /\ frame # 0
           /\ IF writes = {}
              THEN /\ frame \in DOMAIN log[1].envs
                   /\ log[i].name \in DOMAIN log[1].envs[frame].values
                   /\ log[i].value = log[1].envs[frame].values[log[i].name]
              ELSE log[i].value = log[CHOOSE j \in writes : \A k \in writes : k <= j].value

\* a define changed no frame but the one it wrote to
DefineLeavesOuterBindings ==
    \A i \in DOMAIN log : log[i].ev = "define" =>
        \A g \in DOMAIN log[i].before : g # log[i].environment => log[i].after[g] = log[i].before[g]

\* once a block has exited, a read sees the binding it would see from the
\* environment the block was entered from
ShadowingEndsAtBlockExit ==
    \A i \in DOMAIN log : log[i].ev = "block" =>
        \A n \in Names : get(log[i].after, log[i].left, n) = get(log[i].after, log[i].entered, n)

\* C3: a successful read returns the value most recently written to the
\* innermost frame on the chain that contains the name; a var inside a
\* block shadows an outer binding only until the block exits, after which
\* reads see the outer binding, which the inner define did not change.
C3_ReadsSeeInnermostBinding ==
    ReadsLatestWrite /\ DefineLeavesOuterBindings /\ ShadowingEndsAtBlockExit

\* C4: the body of a called function reads its free variables in the
\* environment in which the function was declared, not in the caller's.
C4_FreeVariablesInDeclaringEnvironment ==
    \A i \in DOMAIN log : log[i].ev = "enter" =>
        \A k \in (i + 1)..BodyEnd(i) :
            (/\ log[k].ev = "read"
             /\ log[k].environment = log[i].frame
             /\ log[k].name \notin DOMAIN log[k].envs[log[i].frame].values)
            => get(log[k].envs, log[i].declared, log[k].name) = [some |-> TRUE, value |-> log[k].value]

\* C5: a call with a number of arguments different from the callee's arity
\* returns the error "Callable <name> expected <arity> arguments but got
\* <N>" right after the callee is known: no argument is evaluated, no
\* binding changes and the body is not entered before the error.
C5_ArityCheckedBeforeArguments ==
    \A i \in DOMAIN log :
        (log[i].ev = "callee" /\ log[i].nargs # log[i].arity) =>
            /\ i < Len(log)
            /\ log[i + 1].ev = "error"
            /\ log[i + 1].msg = Msg("Callable {} expected {} arguments but got {}",
                                    <<log[i].name, NatToString(log[i].arity), NatToString(log[i].nargs)>>)
            /\ log[i + 1].envs = log[i].envs
            /\ \A k \in (i + 1)..Len(log) : log[k].ev \notin {"arg", "enter", "assign"}

\* a call of a declared function with one argument too many failed
C5_Witness ==
    \E i \in DOMAIN log :
        /\ log[i].ev = "callee" /\ log[i].nargs = 1 /\ log[i].arity = 0
        /\ log[i].name = f.lexeme
        /\ result.res = "Err"

\* C6: in "a or b", b is evaluated iff a evaluated to a falsy value; in
\* "a and b", b is evaluated iff a evaluated to a truthy value; and when b
\* is not evaluated no binding changes by it.
C6_ShortCircuit ==
    /\ \A i \in DOMAIN log : log[i].ev = "logical" =>
          log[i].right_evaluated =
              (/\ log[i].left.t # "Callable"
               /\ IF log[i].operator = "Or" THEN is_falsy(log[i].left).v = True
                  ELSE is_truthy(log[i].left).v = True)
    /\ (/\ log # << >>
        /\ Len(log[1].stmts) = 1
        /\ log[1].stmts[1].k = "Print"
        /\ log[1].stmts[1].expression.k = "Logical"
        /\ Pure(log[1].stmts[1].expression.left)
        /\ \E i \in DOMAIN log : log[i].ev = "logical" /\ ~log[i].right_evaluated)
       => envs = log[1].envs

\* "true or (a = 2)" was evaluated where a is declared: a keeps its value
C6_Witness ==
    /\ log # << >>
    /\ log[1].stmts = <<PrintStmt(Logical(Literal(True), Or, SetA))>>
    /\ a.lexeme \in DOMAIN envs[1].values
    /\ \E i \in DOMAIN log : log[i].ev = "logical" /\ ~log[i].right_evaluated
    /\ result.res = "Ok"

\* C7: the evaluation of an expression with no Assign and no Call in it
\* changes no binding of any frame and creates no frame, whether it
\* returns a value or an error.
C7_PureExpressionsChangeNothing ==
    (/\ log # << >>
     /\ Len(log[1].stmts) = 1
     /\ log[1].stmts[1].k = "Print"
     /\ Pure(log[1].stmts[1].expression))
    => /\ envs = log[1].envs
       /\ interpreter.environment = log[1].environment
       /\ \A i \in DOMAIN log : log[i].ev \notin {"assign", "define", "enter", "block"}

\* the read of an undeclared variable returned an error
C7_Witness ==
    /\ log # << >>
    /\ log[1].stmts = <<PrintStmt(Variable(u))>>
    /\ result.res = "Err"

\* C9: the statements of a list execute in list order, each after the one
\* before it completed; each Print that completes writes exactly one line;
\* after a statement failed no later statement of the list executes; the
\* lines printed and the bindings written before a failure remain.
C9_EffectsInSourceOrder ==
    /\ \A i \in DOMAIN log : log[i].ev = "exec" =>
          /\ \A j \in 1..(i - 1) : (log[j].ev = "exec" /\ log[j].call = log[i].call)
                                      => log[j].index < log[i].index
          /\ log[i].index > 1 =>
                \E j \in 1..(i - 1) : /\ log[j].ev = "done" /\ log[j].call = log[i].call
                                      /\ log[j].index = log[i].index - 1
    /\ \A i \in DOMAIN log :
          /\ (log[i].ev = "done" /\ log[i].kind = "Print") => (i > 1 /\ log[i - 1].ev = "println")
          /\ log[i].ev = "println" =>
                (i < Len(log) /\ log[i + 1].ev = "done" /\ log[i + 1].kind = "Print")
    /\ log # << >> => out = log[1].out \o Printed(Len(log))
    /\ \A i \in DOMAIN log :
          (/\ IsWrite(i)
           /\ ~FreedAfter(WriteFrame(i), i)
           /\ \A k \in (i + 1)..Len(log) :
                 ~(IsWrite(k) /\ WriteFrame(k) = WriteFrame(i) /\ log[k].name = log[i].name))
          => /\ WriteFrame(i) \in DOMAIN envs
             /\ log[i].name \in DOMAIN envs[WriteFrame(i)].values
             /\ envs[WriteFrame(i)].values[log[i].name] = log[i].value

\* the second of three statements failed after it had assigned to a
C9_Witness ==
    /\ log # << >>
    /\ log[1].stmts = <<Var(a, Lit(1)), PrintStmt(Binary(SetA, Plus, Variable(u))), PrintStmt(Variable(a))>>
    /\ result.res = "Err"
    /\ a.lexeme \in DOMAIN envs[1].values
    /\ envs[1].values[a.lexeme] = Number(2, 1)
    /\ out = log[1].out

-----------------------------------------------------------------------------
(* Properties of run and of the scanner                                    *)

StageResults(stage) == {run.stages[i].res : i \in {j \in DOMAIN run.stages : run.stages[j].stage = stage}}

\* C8: in one run, after the scanner reported an error the parser is not
\* run, and after the parser reported an error no statement is executed:
\* nothing is printed and the interpreter's environment is as the run
\* found it.
C8_ErrorsEndTheRun ==
    /\ "Err" \in StageResults("scan") =>
          /\ StageResults("parse") = {} /\ StageResults("interpret") = {}
          /\ parser = IdleParser
          /\ pc = "prompt"
    /\ "Err" \in StageResults("parse") =>
          /\ StageResults("interpret") = {}
          /\ log = << >>
          /\ out = run.out /\ envs = run.envs /\ interpreter.environment = run.environment
          /\ pc = "prompt"

\* the parser reported an error after it had parsed a statement
C8_Witness ==
    /\ "Err" \in StageResults("parse")
    /\ Len(parser.stmts) > 0
    /\ result.res = "Err"

\* C10: when scan_tokens accepts the source, the tokens returned are not
\* empty, the last is Eof with empty lexeme, no literal and the scanner's
\* final line, and no other token is Eof.
C10_EofEndsTheTokens ==
    (pc = "scanned" /\ result.res = "Ok") =>
        /\ Len(scanner.tokens) > 0
        /\ scanner.tokens[Len(scanner.tokens)] = Token("Eof", << >>, NoLiteral, scanner.line)
        /\ \A i \in 1..(Len(scanner.tokens) - 1) : scanner.tokens[i].token_type # "Eof"

\* a source of two lines with a token on the second was accepted
C10_Witness ==
    /\ pc = "scanned" /\ result.res = "Ok"
    /\ scanner.line = 2
    /\ Len(scanner.tokens) = 2
    /\ scanner.tokens[1].line_num = 2

\* the scanner steps of the history that failed, in source order, are as
\* many as the messages
ErrorsInSourceOrder ==
    /\ Len(scanner.error_at) = Len(scanner.errors)
    /\ \A i, j \in DOMAIN scanner.error_at : i < j => scanner.error_at[i] < scanner.error_at[j]

\* scan_tokens has returned: it is at the end of the source, with Err and
\* the messages joined iff there is a message, and Ok otherwise
ScanReturnsTheErrors ==
    pc = "scanned" =>
        /\ is_at_end(scanner)
        /\ result.res = IF Len(scanner.errors) > 0 THEN "Err" ELSE "Ok"
        /\ result.res = "Err" => result.msg = [joined |-> scanner.errors, sep |-> "after each"]

\* C11: a lexical error does not stop the scanner: it goes on to the end
\* of the source, keeps one message per error in source order, and
\* scan_tokens returns Err with all the messages joined iff there was an
\* error, and Ok otherwise.
C11_LexicalErrorsAreCollected ==
    /\ ErrorsInSourceOrder
    /\ ScanReturnsTheErrors
    /\ Len(scanner.errors) > 0 => pc # "crashed"

\* every character of the source is one byte long
AsciiSource == ByteLen(scanner.source) = Len(scanner.source)

\* on a source of one-byte characters the errors are collected as C11 says
AsciiErrorsAreCollected == AsciiSource => C11_LexicalErrorsAreCollected

\* three errors on two lines were collected and returned
AsciiErrorsWitness ==
    /\ pc = "scanned" /\ result.res = "Err"
    /\ Len(scanner.errors) = 3
    /\ scanner.line = 2
    /\ Len(scanner.tokens) = 2

\* the bytes of a text: byte b is the k-th byte of the character it is in
ByteAt(text, b) ==
    LET i == CHOOSE i \in 1..Len(text) : ByteLen(SubSeq(text, 1, i - 1)) < b /\ b <= ByteLen(SubSeq(text, 1, i))
    IN <<text[i], b - ByteLen(SubSeq(text, 1, i - 1))>>

Bytes(text) == [b \in 1..ByteLen(text) |-> ByteAt(text, b)]

\* the tokens pushed by add_token_lit: all but the Eof that ends the scan
Emitted == {i \in DOMAIN scanner.tokens : scanner.tokens[i].token_type # "Eof"}

\* every emitted token has 0 <= start <= current <= source.len() and the
\* bytes of the source from start to current as its lexeme
LexemeIsTheSpan ==
    /\ Len(scanner.spans) = Len(scanner.tokens)
    /\ \A i \in Emitted :
          /\ 0 <= scanner.spans[i].start
          /\ scanner.spans[i].start <= scanner.spans[i].current
          /\ scanner.spans[i].current <= ByteLen(scanner.source)
          /\ Bytes(scanner.tokens[i].lexeme)
               = SubSeq(Bytes(scanner.source), scanner.spans[i].start + 1, scanner.spans[i].current)

\* the spans of the emitted tokens increase strictly and do not overlap
SpansIncrease ==
    \A i, j \in Emitted : i < j =>
        /\ scanner.spans[i].start < scanner.spans[j].start
        /\ scanner.spans[i].current <= scanner.spans[j].start

\* the last token of a scan that returned is Eof
FinalTokenIsEof ==
    pc = "scanned" =>
        /\ Len(scanner.tokens) > 0
        /\ scanner.tokens[Len(scanner.tokens)].token_type = "Eof"

\* the first step of the scan skips its text: white space, a comment, or a
\* text reported as an error
FirstStepSkips ==
    \/ scanner.source = << >>
    \/ scanner.source[1] \in {" ", "\r", "\t", "\n"}
    \/ Len(scanner.source) >= 2 /\ scanner.source[1] = "/" /\ scanner.source[2] = "/"
    \/ scanner.error_at # << >> /\ scanner.error_at[1] = 0

\* C12 as the specification states it: at every token emission 0 <= start
\* <= current <= source length and the lexeme is the source from start to
\* current; the spans increase strictly without overlap; the first token
\* emitted starts at offset 0 and the final token is Eof.
C12_FirstTokenStartsAtZero ==
    /\ LexemeIsTheSpan
    /\ SpansIncrease
    /\ scanner.spans # << >> => scanner.spans[1].start = 0
    /\ FinalTokenIsEof

\* C12 amended: as above, but the first token emitted starts at offset 0
\* only when the source begins with the text of a token; after skipped
\* text (white space, a comment, a text reported as an error) it starts
\* later.
C12_TokenSpans ==
    /\ LexemeIsTheSpan
    /\ SpansIncrease
    /\ (Emitted # {} /\ ~FirstStepSkips) => scanner.spans[1].start = 0
    /\ (Emitted # {} /\ FirstStepSkips) => scanner.spans[1].start > 0
    /\ FinalTokenIsEof

\* two tokens after a space were emitted and the scan returned
C12_Witness ==
    /\ pc = "scanned"
    /\ scanner.source = <<" ", "1", "(">>
    /\ Len(scanner.spans) = 3
    /\ scanner.spans[1] = [start |-> 1, current |-> 2]
    /\ scanner.spans[2] = [start |-> 2, current |-> 3]

-----------------------------------------------------------------------------
(* The parser alone, one declaration of parse's loop per step, on the      *)
(* tokens of short source lines and on token vectors made directly, as     *)
(* the tests of parser.rs make them.  scanner.source is the line parsed.   *)


\* for (init cond; incr) print a; with each clause present or omitted
ForInits == {<<";">>, Words(<<KW("Var"), <<"a">>, <<"=">>, N(0), <<";">>>>), Words(<<<<"a">>, <<"=">>, N(0), <<";">>>>)}
ForConds == {<< >>, Words(<<<<"a">>, <<"<">>, N(2)>>)}
ForIncrs == {<< >>, Words(<<<<"a">>, <<"=">>, <<"a">>, <<"+">>, N(1)>>)}

ForSource(init, cond, incr) ==
    Words(<<KW("For"), <<"(">>, init, cond, <<";">>, incr, <<")">>, KW("Print"), <<"a">>, <<";">>>>)

ForSources == {ForSource(init, cond, incr) : init \in ForInits, cond \in ForConds, incr \in ForIncrs}

\* the operators of the binary levels, and the operands between them
BinaryOperators ==
    {KW("Or"), KW("And"), <<"=", "=">>, <<"!", "=">>, <<"<">>, <<">", "=">>, <<"+">>, <<"-">>, <<"*">>, <<"/">>}

PrecedenceSources ==
    {Words(<<<<"a">>, op1, <<"u">>, op2, <<"f">>, <<";">>>>) : op1 \in BinaryOperators, op2 \in BinaryOperators}
    \cup { Words(<<N(1), <<"+">>, N(2), <<"=", "=">>, N(5), <<"+">>, N(7), <<";">>>>),
           Words(<<N(1), <<"=", "=">>, <<"(">>, N(2), <<"+">>, N(2), <<")">>, <<";">>>>),
           Words(<<<<"a">>, <<"-">>, <<"u">>, <<"-">>, <<"f">>, <<";">>>>),
           Words(<<<<"-">>, <<"a">>, <<"*">>, <<"!">>, <<"u">>, <<";">>>>),
           Words(<<<<"!">>, <<"-">>, <<"f">>, <<"(">>, <<"a">>, <<")">>, <<"(">>, <<")">>, <<";">>>>),
           Words(<<<<"a">>, <<"=">>, <<"u">>, KW("Or"), <<"f">>, <<";">>>>),
           Words(<<<<"a">>, <<"*">>, <<"(">>, <<"u">>, <<"=">>, <<"f">>, <<")">>, <<";">>>>) }

\* what may stand left of an = sign
AssignTargets ==
    {<<"a">>, N(1), <<"(", "a", ")">>, Words(<<<<"a">>, <<"+">>, <<"u">>>>), <<"f", "(", ")">>, <<"\"", "x", "\"">>}

AssignSources ==
    {Words(<<t, <<"=">>, N(1), <<";">>>>) : t \in AssignTargets}
    \cup {Words(<<<<"a">>, <<"=">>, t, <<"=">>, N(1), <<";">>>>) : t \in AssignTargets}
    \cup {Words(<<t, <<"=">>, <<"u">>, <<"=">>, N(1), <<"+">>, N(2), <<";">>, KW("Print"), <<"a">>, <<";">>>>) :
              t \in AssignTargets}
    \cup {Words(<<t, <<"=">>, <<";">>, KW("Print"), <<"a">>, <<";">>>>) : t \in AssignTargets}

\* lines with errors, each followed by text the parser is to resume at
\* a ; ) ; : a declaration that fails on its first token, after a semicolon
StrayParen == Words(<<<<"a">>, <<";">>, <<")">>, <<";">>>>)

ErrorSources ==
    { Words(<<<<"a">>, KW("Print"), N(1), <<";">>>>),
      Words(<<KW("Print"), <<";">>, KW("Print"), N(1), <<";">>>>),
      Words(<<KW("Print"), KW("Print"), N(1), <<";">>, KW("Print"), N(2), <<";">>>>),
      Words(<<N(1), <<"+">>, <<";">>, KW("Var"), <<"a">>, <<";">>>>),
      Words(<<<<"(">>, <<"a">>, <<"u">>, KW("Print"), <<"a">>, <<";">>>>),
      Words(<<KW("Var"), <<";">>, KW("Var"), <<"a">>, <<"=">>, <<";">>, KW("Print"), <<"a">>, <<";">>>>),
      Words(<<<<"a">>, <<"u">>, <<"f">>>>),
      Words(<<KW("Print"), N(1), KW("Class"), <<"a">>>>),
      Words(<<<<"a">>, KW("Return"), <<";">>, <<"u">>, <<";">>>>),
      Words(<<<<")">>, <<"a">>, KW("If"), <<"(">>, <<"a">>, <<")">>, <<"u">>, <<";">>>>),
      Words(<<<<")">>, KW("While"), <<"(">>, <<"a">>, <<")">>, <<"u">>, <<";">>>>),
      Words(<<<<")">>, <<")">>, KW("For"), <<"(">>, <<";">>, <<";">>, <<"a">>, <<")">>, <<"u">>, <<";">>>>),
      Words(<<<<")">>, <<"}">>, KW("Fun"), <<"f">>, <<"(">>, <<")">>, <<"{">>, <<"}">>>>),
      Words(<<KW("Var"), KW("Fun"), <<"f">>, <<"(">>, <<")">>, <<"{">>, <<"}">>>>),
      Words(<<<<"{">>, KW("Print"), <<"}">>, KW("Print"), <<"a">>, <<";">>>>),
      StrayParen }

\* functions whose body ends with or without a semicolon, and numbers
BodySources ==
    { Words(<<KW("Fun"), <<"f">>, <<"(">>, <<"u">>, <<")">>, <<"{">>, <<"a">>, <<"+">>, <<"u">>, <<"}">>>>),
      Words(<<KW("Fun"), <<"f">>, <<"(">>, <<"u">>, <<")">>, <<"{">>, <<"a">>, <<"+">>, <<"u">>, <<";">>, <<"}">>>>),
      Words(<<KW("Var"), <<"a">>, <<"=">>, <<"1", "0">>, <<";">>>>),
      Words(<<KW("Print"), <<"1", ".", "5">>, <<";">>>>),
      Words(<<KW("Print"), <<"7", ".">>, <<";">>>>),
      Words(<<KW("Print"), <<"1">>, <<";">>>>),
      Words(<<KW("Print"), <<"0", "7", ".", "2", "5", ".", "5">>, <<";">>>>) }

ParseSources == ForSources \cup PrecedenceSources \cup AssignSources \cup ErrorSources \cup BodySources

\* n identifiers separated by commas
Commas(n) ==
    [i \in 1..(IF n = 0 THEN 0 ELSE 2 * n - 1) |->
        IF i % 2 = 1 THEN Ident(<<"a">>) ELSE Operator("Comma", <<",">>)]

EofToken == Token("Eof", << >>, NoLiteral, 1)

\* fun f(a, ..., a) {} with n parameters
FunTokens(n) ==
    <<Operator("Fun", KW("Fun")), f, Operator("LeftParen", <<"(">>)>> \o Commas(n)
    \o <<Operator("RightParen", <<")">>), Operator("LeftBrace", <<"{">>), Operator("RightBrace", <<"}">>),
         EofToken>>

\* f(a, ..., a); with n arguments
CallTokens(n) ==
    <<f, Operator("LeftParen", <<"(">>)>> \o Commas(n)
    \o <<Operator("RightParen", <<")">>), Operator("SemiColon", <<";">>), EofToken>>

\* the numbers of parameters and of arguments tried
Arities == {0, 1, 2, MaxArguments - 1, MaxArguments, MaxArguments + 1, MaxArguments + 2}

\* token vectors given to Parser::new directly
ParseInputs == {FunTokens(n) : n \in Arities} \cup {CallTokens(n) : n \in Arities}

\* main.rs 35-38: the scanner that scanned a line, and the parser of its
\* tokens; or a parser of a vector of tokens, no line being scanned
InitParser ==
    /\ pc = "parse"
    /\ \/ \E source \in ParseSources :
            /\ scanner = scan_tokens(Scanner_new(source)).s
            /\ parser = Parser_new(scanner.tokens)
       \/ \E tokens \in ParseInputs :
            /\ scanner = IdleScanner
            /\ parser = Parser_new(tokens)
    /\ InterpreterNew
    /\ out = << >>
    /\ result = [res |-> "None"]
    /\ lines = 0
    /\ log = << >>
    /\ run = IdleRun

\* parser.rs 29-38: one iteration of the loop of parse
ParseDeclaration ==
    /\ pc = "parse"
    /\ ~Parser_is_at_end(parser)
    /\ ParseStep(parser).res # "Stop"
    /\ parser' = ParseStep(parser).p
    /\ pc' = IF ParseStep(parser).res = "Panic" THEN "crashed" ELSE pc
    /\ result' = IF ParseStep(parser).res = "Panic"
                 THEN [res |-> "Panic", msg |-> ParseStep(parser).msg] ELSE result
    /\ UNCHANGED <<scanner, envs, interpreter, out, lines, log, run>>

\* parser.rs 40-44: the loop has ended
ParseEof ==
    /\ pc = "parse"
    /\ Parser_is_at_end(parser)
    /\ pc' = "parsed"
    /\ result' = IF ParseEnd(parser).res = "Ok" THEN [res |-> "Ok", value |-> ParseEnd(parser).value]
                 ELSE [res |-> "Err", msg |-> ParseEnd(parser).msg]
    /\ UNCHANGED <<scanner, parser, envs, interpreter, out, lines, log, run>>

NextParser == ParseDeclaration \/ ParseEof

SpecParser == InitParser /\ [][NextParser]_vars

-----------------------------------------------------------------------------
(* Properties of the parser                                                *)

Num(n) == Token("Number", N(n), [lk |-> "FValue", num |-> n, den |-> 1], 1)

\* the statements the for clauses of ForSources stand for
ForInitStmt(init) ==
    IF init = <<";">> THEN << >>
    ELSE IF init[1] = "v" THEN <<Var(a, Lit(0))>>
    ELSE <<Expression(Assign(a, Lit(0)))>>

ForCondExpr(cond) == IF cond = << >> THEN << >> ELSE <<Binary(Variable(a), Less, Lit(2))>>

ForIncrExpr(incr) ==
    IF incr = << >> THEN << >> ELSE <<Assign(a, Binary(Variable(a), Plus, Lit(1)))>>

\* the statement the specification gives for a for loop
ForMeaning(init, cond, incr, body) ==
    LET loop == WhileStmt(IF cond = << >> THEN Literal(True) ELSE cond[1],
                          IF incr = << >> THEN body ELSE Block(<<body, Expression(incr[1])>>))
    IN IF init = << >> THEN loop ELSE Block(<<init[1], loop>>)

\* the for loop of the line parsed is parsed into the statement it stands for
ForParsedAs(init, cond, incr) ==
    (pc = "parsed" /\ scanner.source = ForSource(init, cond, incr))
        => /\ result.res = "Ok"
           /\ parser.stmts = <<ForMeaning(ForInitStmt(init), ForCondExpr(cond), ForIncrExpr(incr),
                                          PrintStmt(Variable(a)))>>

\* C13: for (init; cond; incr) body is parsed into Block[init, While(cond,
\* Block[body, Expression(incr)])]; an omitted cond is the literal true, an
\* omitted init removes the outer Block, an omitted incr leaves body itself as
\* the body of the while; all eight combinations parse without error.
C13_ForIsDesugared ==
    \A init \in ForInits, cond \in ForConds, incr \in ForIncrs : ForParsedAs(init, cond, incr)

\* the same for the loops that have an increment
ForWithIncrementIsDesugared ==
    \A init \in ForInits, cond \in ForConds, incr \in ForIncrs \ {<< >>} : ForParsedAs(init, cond, incr)

ForWithIncrementWitness ==
    /\ pc = "parsed"
    /\ scanner.source = ForSource(<<";">>, << >>, Words(<<<<"a">>, <<"=">>, <<"a">>, <<"+">>, N(1)>>))
    /\ parser.stmts = <<WhileStmt(Literal(True),
                                  Block(<<PrintStmt(Variable(a)),
                                          Expression(Assign(a, Binary(Variable(a), Plus, Lit(1))))>>))>>

\* parser.rs 530: the keywords synchronize stops in front of
SyncKeywords == {"Class", "Fun", "Var", "For", "If", "While", "Print", "Return"}

\* the type of the i-th token (from 1) of the parser
TypeAt(i) == parser.tokens[i].token_type

\* the tokens discarded after the k-th error are those numbered from + 1 .. to

\* synchronize stops just past a semicolon, in front of a keyword of the list
\* or at Eof, and not later than the first of these
StopsAtBoundary(k) ==
    LET from == parser.skips[k].from
        to == parser.skips[k].to
    IN /\ from < to \/ TypeAt(from + 1) = "Eof"
       /\ \/ to > from /\ TypeAt(to) = "SemiColon"
          \/ TypeAt(to + 1) \in SyncKeywords \cup {"Eof"}
       /\ \A j \in (from + 1)..(to - 1) : TypeAt(j) # "SemiColon"
       /\ \A j \in (from + 2)..to : TypeAt(j) \notin SyncKeywords

\* no keyword of the list is among the tokens discarded
KeepsKeywords(k) ==
    \A j \in (parser.skips[k].from + 1)..parser.skips[k].to : TypeAt(j) \notin SyncKeywords

\* every error is recorded, in the order of the source, and parse returns Err
\* with all of them joined by newlines, Ok only if there is none
ParseReturnsTheErrors ==
    /\ Len(parser.errs) = Len(parser.skips)
    /\ \A k \in 1..(Len(parser.skips) - 1) : parser.skips[k].to <= parser.skips[k + 1].from
    /\ pc = "parsed" =>
          /\ result.res = IF Len(parser.errs) > 0 THEN "Err" ELSE "Ok"
          /\ result.res = "Err" => result.msg = [joined |-> parser.errs, sep |-> "between"]
          /\ result.res = "Ok" => result.value = parser.stmts

\* C14: after a parse error the parser records the message and discards tokens
\* until it is just past the next semicolon or the next token is class, fun,
\* var, for, if, while, print or return (or Eof), so that no keyword of the list
\* that begins a later statement is discarded; parse returns Err with every
\* message, joined by newlines in order, and Ok only if there was none.
C14_SynchronizeKeepsKeywords ==
    /\ \A k \in 1..Len(parser.skips) : StopsAtBoundary(k) /\ KeepsKeywords(k)
    /\ ParseReturnsTheErrors

\* the same, but for the token the error was reported at, which is discarded
\* whatever it is
SynchronizeStopsAtBoundary ==
    /\ \A k \in 1..Len(parser.skips) : StopsAtBoundary(k)
    /\ ParseReturnsTheErrors

\* two errors, the parser resuming at var and at print
SynchronizeWitness ==
    /\ pc = "parsed"
    /\ Len(parser.skips) = 2
    /\ TypeAt(parser.skips[1].to + 1) = "Var"
    /\ TypeAt(parser.skips[2].to + 1) = "Print"
    /\ Len(parser.stmts) = 1
    /\ result.res = "Err"

\* the number of tokens of a target of AssignTargets
TargetTokens(t) == IF Len(t) = 1 \/ t = N(1) \/ t[1] = "\"" THEN 1 ELSE 3

\* the line parsed has one error, reported with n tokens consumed, and
\* the statements parsed are stmts
OneError(msg, n, stmts) ==
    /\ parser.errs = <<Msg(msg, << >>)>>
    /\ parser.skips[1].from = n
    /\ parser.stmts = stmts
    /\ result.res = "Err"

NoError(stmts) == parser.errs = << >> /\ parser.stmts = stmts /\ result.res = "Ok"

OnePlusTwo == Binary(Lit(1), Plus, Lit(2))

\* t = 1.0;
AssignOnce(t) ==
    (pc = "parsed" /\ scanner.source = Words(<<t, <<"=">>, N(1), <<";">>>>)) =>
        IF t = <<"a">> THEN NoError(<<Expression(Assign(a, Lit(1)))>>)
        ELSE OneError("invalid assignment target.", TargetTokens(t) + 2, << >>)

\* a = t = 1.0;
AssignInner(t) ==
    (pc = "parsed" /\ scanner.source = Words(<<<<"a">>, <<"=">>, t, <<"=">>, N(1), <<";">>>>)) =>
        IF t = <<"a">> THEN NoError(<<Expression(Assign(a, Assign(a, Lit(1))))>>)
        ELSE OneError("invalid assignment target.", TargetTokens(t) + 4, << >>)

\* t = u = 1.0 + 2.0; print a;
AssignTwice(t) ==
    (/\ pc = "parsed"
     /\ scanner.source = Words(<<t, <<"=">>, <<"u">>, <<"=">>, N(1), <<"+">>, N(2), <<";">>,
                                 KW("Print"), <<"a">>, <<";">>>>)) =>
        IF t = <<"a">>
        THEN NoError(<<Expression(Assign(a, Assign(u, OnePlusTwo))), PrintStmt(Variable(a))>>)
        ELSE OneError("invalid assignment target.", TargetTokens(t) + 6, <<PrintStmt(Variable(a))>>)

\* t = ; print a;
AssignNothing(t) ==
    (pc = "parsed" /\ scanner.source = Words(<<t, <<"=">>, <<";">>, KW("Print"), <<"a">>, <<";">>>>)) =>
        OneError("Expected expression", TargetTokens(t) + 1, <<PrintStmt(Variable(a))>>)

\* C15: assignment is right-associative, a = b = e being Assign(a, Assign(b, e));
\* a target that is not a Variable (a literal, a grouping such as (a), a binary
\* expression, a call) is the error "invalid assignment target.", and the check
\* is made after the = and the whole right-hand side have been consumed.
C15_AssignmentTargets ==
    \A t \in AssignTargets : AssignOnce(t) /\ AssignInner(t) /\ AssignTwice(t) /\ AssignNothing(t)

C15_Witness ==
    /\ pc = "parsed"
    /\ scanner.source = Words(<<<<"(", "a", ")">>, <<"=">>, <<"u">>, <<"=">>, N(1), <<"+">>, N(2), <<";">>,
                                KW("Print"), <<"a">>, <<";">>>>)
    /\ parser.errs = <<Msg("invalid assignment target.", << >>)>>
    /\ parser.skips = <<[from |-> 9, to |-> 10]>>

\* the level of an expression in the grammar: assignment 0, or 1, and 2,
\* equality 3, comparison 4, term 5, factor 6, unary 7, call 8, primary 9
Level(e) ==
    CASE e.k = "Assign" -> 0
      [] e.k \in {"Logical", "Binary"} ->
            CHOOSE l \in 1..Len(BinaryLevels) : e.operator.token_type \in BinaryLevels[l].types
      [] e.k = "Unary" -> 7
      [] e.k = "Call" -> 8
      [] OTHER -> 9

\* what a token shows of itself in an expression
Mark(token) ==
    IF token.token_type \in {"Number", "StringLit", "True", "False", "Nil"} THEN <<token.token_type>>
    ELSE token.lexeme

RECURSIVE Flatten(_)
RECURSIVE FlattenAll(_)
\* the marks of the tokens an expression was parsed from, in order
Flatten(e) ==
    CASE e.k = "Literal" -> <<(<<IF e.value.t = "StringValue" THEN "StringLit" ELSE e.value.t>>)>>
      [] e.k = "Variable" -> <<e.name.lexeme>>
      [] e.k = "Assign" -> <<e.name.lexeme, <<"=">>>> \o Flatten(e.value)
      [] e.k = "Unary" -> <<e.operator.lexeme>> \o Flatten(e.right)
      [] e.k \in {"Logical", "Binary"} -> Flatten(e.left) \o <<e.operator.lexeme>> \o Flatten(e.right)
      [] e.k = "Grouping" -> <<(<<"(">>)>> \o Flatten(e.expression) \o <<(<<")">>)>>
      [] e.k = "Call" -> Flatten(e.callee) \o <<(<<"(">>)>> \o FlattenAll(e.arguments) \o <<(<<")">>)>>

FlattenAll(es) ==
    CASE Len(es) = 0 -> << >>
      [] Len(es) = 1 -> Flatten(es[1])
      [] OTHER -> FlattenAll(SubSeq(es, 1, Len(es) \div 2)) \o <<(<<",">>)>>
                  \o FlattenAll(SubSeq(es, Len(es) \div 2 + 1, Len(es)))

RECURSIVE FlattenStmts(_)
\* the marks of expression statements
FlattenStmts(stmts) ==
    IF Len(stmts) = 0 THEN << >>
    ELSE Flatten(stmts[1].expression) \o <<(<<";">>)>> \o FlattenStmts(Tail(stmts))

RECURSIVE Grouped(_)
\* an operand of a lower level than its operator's stands in parentheses: the
\* left operand of a binary operator is of its level or higher, the right
\* operand of a higher level; the value of an assignment is any expression
Grouped(e) ==
    CASE e.k = "Assign" -> Grouped(e.value)
      [] e.k \in {"Logical", "Binary"} ->
            /\ Level(e.left) >= Level(e) /\ Grouped(e.left)
            /\ Level(e.right) > Level(e) /\ Grouped(e.right)
      [] e.k = "Unary" -> Level(e.right) >= 7 /\ Grouped(e.right)
      [] e.k = "Call" ->
            /\ Level(e.callee) >= 8 /\ Grouped(e.callee)
            /\ \A i \in 1..Len(e.arguments) : Grouped(e.arguments[i])
      [] e.k = "Grouping" -> Grouped(e.expression)
      [] OTHER -> TRUE

\* the statements parsed so far are expression statements
OnlyExpressions == \A i \in 1..Len(parser.stmts) : parser.stmts[i].k = "Expression"

\* expression statements are grouped by level, and are the tokens of the line
ExpressionsGrouped ==
    OnlyExpressions =>
        /\ \A i \in 1..Len(parser.stmts) : Grouped(parser.stmts[i].expression)
        /\ (pc = "parsed" /\ parser.errs = << >>) =>
              FlattenStmts(parser.stmts)
                  = [i \in 1..(Len(parser.tokens) - 1) |-> Mark(parser.tokens[i])]

EqualEqual == Operator("EqualEqual", <<"=", "=">>)

\* the three lines of the statement
PrecedenceExamples ==
    pc = "parsed" =>
        /\ scanner.source = Words(<<N(1), <<"+">>, N(2), <<"=", "=">>, N(5), <<"+">>, N(7), <<";">>>>)
              => NoError(<<Expression(Binary(OnePlusTwo, EqualEqual, Binary(Lit(5), Plus, Lit(7))))>>)
        /\ scanner.source = Words(<<N(1), <<"=", "=">>, <<"(">>, N(2), <<"+">>, N(2), <<")">>, <<";">>>>)
              => NoError(<<Expression(Binary(Lit(1), EqualEqual, Grouping(Binary(Lit(2), Plus, Lit(2)))))>>)
        /\ scanner.source = Words(<<<<"a">>, <<"-">>, <<"u">>, <<"-">>, <<"f">>, <<";">>>>)
              => NoError(<<Expression(Binary(Binary(Variable(a), Minus, Variable(u)), Minus, Variable(f)))>>)

\* C16: the levels of precedence are, from the loosest, assignment, or, and,
\* equality, comparison, term, factor, unary, call; operators of one level group
\* to the left: 1.0 + 2.0 == 5.0 + 7.0 is (== (+ 1 2) (+ 5 7)), 1.0 == (2.0 + 2.0)
\* is (== 1 (group (+ 2 2))), a - b - c is (- (- a b) c).
C16_Precedence == ExpressionsGrouped /\ PrecedenceExamples

C16_Witness ==
    /\ pc = "parsed"
    /\ scanner.source = Words(<<<<"a">>, <<"*">>, <<"u">>, KW("Or"), <<"f">>, <<";">>>>)
    /\ parser.stmts = <<Expression(Logical(Binary(Variable(a), Operator("Star", <<"*">>), Variable(u)),
                                           Or, Variable(f)))>>

\* a function of n parameters is parsed when n is at most most; one of more
\* parameters is an error
ParametersUpTo(most) ==
    \A n \in Arities :
        (pc = "parsed" /\ parser.tokens = FunTokens(n)) =>
            IF n <= most
            THEN NoError(<<Function(f, [i \in 1..n |-> a], << >>)>>)
            ELSE /\ parser.errs = <<Msg("Line {}: can't have more than 255 parameters", <<(<<"1">>)>>)>>
                 /\ parser.stmts = << >>
                 /\ result.res = "Err"

\* a call with n arguments is parsed when n is at most most; one with more
\* arguments is an error
ArgumentsUpTo(most) ==
    \A n \in Arities :
        (pc = "parsed" /\ parser.tokens = CallTokens(n)) =>
            IF n <= most
            THEN NoError(<<Expression(Call(Variable(f), Paren, [i \in 1..n |-> Variable(a)]))>>)
            ELSE /\ parser.errs = <<Msg("line: {} cannot have more than 255 arguments", <<(<<"1">>)>>)>>
                 /\ parser.stmts = << >>
                 /\ result.res = "Err"

\* C17: a function declaration is accepted with up to and including 255
\* parameters and a call with up to and including 255 arguments; 256 or more
\* are rejected.
C17_ArityLimit == ParametersUpTo(MaxArguments) /\ ArgumentsUpTo(MaxArguments)

\* the limits of the code: 255 parameters, 254 arguments
ArityLimitsOfTheCode == ParametersUpTo(MaxArguments) /\ ArgumentsUpTo(MaxArguments - 1)

ArityLimitsWitness ==
    /\ pc = "parsed"
    /\ parser.tokens = FunTokens(MaxArguments)
    /\ result.res = "Ok"
    /\ Len(parser.stmts[1].params) = MaxArguments

-----------------------------------------------------------------------------
(* Properties of whole runs                                                *)

\* the run of the line source neither crashes nor ends before it has
\* written lines after what was on stdout when it began
RunPrints(source, written) ==
    scanner.source = source =>
        /\ pc # "crashed"
        /\ \A i \in DOMAIN run.stages : run.stages[i].res = "Ok"
        /\ pc = "prompt" => Len(run.stages) = 3 /\ out = run.out \o written

x == Ident(<<"x">>)
y == Ident(<<"y">>)
addX == Ident(<<"a", "d", "d", "X">>)

\* the function of the line has been parsed with the body x + y
AddXParsed(source) ==
    (scanner.source = source /\ pc \in {"interpret", "prompt"}) =>
        /\ Len(parser.stmts) = 3
        /\ parser.stmts[2] = Function(addX, <<y>>, <<Expression(Binary(Variable(x), Plus, Variable(y)))>>)

\* C18: a function body whose final element is an expression with no
\* terminating semicolon, as in fun addX(y) { x + y }, is accepted, and
\* var x = 10; fun addX(y) { x + y } print addX(5); prints 15.
C18_BodyEndsWithExpression ==
    /\ AddXParsed(AddXSource)
    /\ RunPrints(AddXSource, <<(<<"1", "5">>)>>)

\* with the numbers written 10.0 and 5.0 and a semicolon after x + y
AddXSemicolonPrints ==
    /\ AddXParsed(AddXSemicolon)
    /\ RunPrints(AddXSemicolon, <<(<<"1", "5">>)>>)

AddXSemicolonWitness ==
    /\ scanner.source = AddXSemicolon
    /\ pc = "prompt"
    /\ Len(run.stages) = 3
    /\ out = run.out \o <<(<<"1", "5">>)>>

\* with the numbers written 10.0 and 5.0 the line is not parsed
AddXFloatsRejected ==
    (scanner.source = AddXFloats /\ pc = "prompt") =>
        /\ result = [res |-> "Err",
                     msg |-> [joined |-> <<Msg("Expected ';' after value.", << >>)>>, sep |-> "between"]]
        /\ out = run.out

-----------------------------------------------------------------------------
(* Properties of number and string tokens                                  *)

\* the character of an ASCII source at offset b (from 0), "NUL" past its end
CharAt(b) == IF b < Len(scanner.source) THEN scanner.source[b + 1] ELSE "NUL"

AsciiDigit(c) == \E d \in 1..10 : Digits[d] = c

\* the place of the point in a lexeme, 0 if it has none
PointOf(lexeme) == IF \E k \in 1..Len(lexeme) : lexeme[k] = "." THEN IndexOf(lexeme, ".") ELSE 0

\* the payload of a Number token is the value its lexeme writes: an integer
\* for digits, a float for digits, a point and digits
PayloadOfLexeme(token) ==
    IF PointOf(token.lexeme) = 0
    THEN /\ IsDigits(token.lexeme)
         /\ token.literal.lk = "IntValue"
         /\ DigitsValue(token.literal.digits) = DigitsValue(token.lexeme)
    ELSE /\ IsDigits(SubSeq(token.lexeme, 1, PointOf(token.lexeme) - 1))
         /\ IsDigits(SubSeq(token.lexeme, PointOf(token.lexeme) + 1, Len(token.lexeme)))
         /\ token.literal.lk = "FValue"
         /\ token.literal.num * Pow(10, Len(token.lexeme) - PointOf(token.lexeme))
              = token.literal.den * DigitsValue(SubSeq(token.lexeme, 1, PointOf(token.lexeme) - 1)
                                                 \o SubSeq(token.lexeme, PointOf(token.lexeme) + 1,
                                                           Len(token.lexeme)))

\* a Number token is a whole run of digits, with the point and the digits
\* after it if a digit follows the point; a point that no digit follows is
\* the Dot token after the number
WholeDigitRun(i) ==
    LET start == scanner.spans[i].start
        current == scanner.spans[i].current
    IN /\ AsciiDigit(CharAt(start))
       /\ ~AsciiDigit(CharAt(current))
       /\ PointOf(scanner.tokens[i].lexeme) = 0 =>
             (CharAt(current) = "." =>
                 /\ ~AsciiDigit(CharAt(current + 1))
                 /\ scanner.tokens[i + 1].token_type = "Dot"
                 /\ scanner.spans[i + 1].start = current)
       /\ (i > 1 /\ scanner.spans[i - 1].current = start) =>
             scanner.tokens[i - 1].token_type \notin {"Number", "Identifier"}

\* the source has no comment
NoComment == \A b \in 0..(Len(scanner.source) - 1) : ~(CharAt(b) = "/" /\ CharAt(b + 1) = "/")

\* every number of an ASCII source is one Number token with its payload, and
\* every digit is in a number, an identifier or a string
NumberTokensScanned ==
    (AsciiSource /\ pc # "crashed") =>
        /\ \A i \in DOMAIN scanner.tokens :
              scanner.tokens[i].token_type = "Number" =>
                  PayloadOfLexeme(scanner.tokens[i]) /\ (pc # "scan" => WholeDigitRun(i))
        /\ \A b \in 0..(Len(scanner.source) - 1) :
              (pc # "scan" /\ scanner.errors = << >> /\ NoComment /\ AsciiDigit(CharAt(b))) =>
                  \E i \in DOMAIN scanner.tokens :
                      /\ scanner.spans[i].start <= b /\ b < scanner.spans[i].current
                      /\ scanner.tokens[i].token_type \in {"Number", "Identifier", "StringLit"}

\* the line `print text;` is parsed into the printing of the number num / den
NumberParsed(text, num, den) ==
    (scanner.source = Words(<<KW("Print"), text, <<";">>>>) /\ pc # "parse") =>
        /\ pc = "parsed"
        /\ NoError(<<PrintStmt(Literal(Number(num, den)))>>)

\* C19: a run of digits, a point and a digit at least is one Number token with
\* a float payload, any other run of digits a Number token with an integer
\* payload (a point that no digit follows is a Dot token of its own); the
\* parser turns every Number token, of either payload, into a Literal Number of
\* the same value.
C19_NumbersBecomeLiterals ==
    /\ NumberTokensScanned
    /\ NumberParsed(<<"1", ".", "5">>, 3, 2)
    /\ NumberParsed(<<"1">>, 1, 1)
    /\ (scanner.source = Words(<<KW("Var"), <<"a">>, <<"=">>, <<"1", "0">>, <<";">>>>) /\ pc # "parse") =>
          pc = "parsed" /\ NoError(<<Var(a, Lit(10))>>)

\* the same for the numbers written with a point
FloatsBecomeLiterals ==
    /\ NumberTokensScanned
    /\ NumberParsed(<<"1", ".", "5">>, 3, 2)
    /\ NumberParsed(N(1), 1, 1)

FloatsBecomeLiteralsWitness ==
    /\ scanner.source = Words(<<KW("Print"), <<"1", ".", "5">>, <<";">>>>)
    /\ pc = "parsed"
    /\ parser.stmts = <<PrintStmt(Literal(Number(3, 2)))>>

\* the offsets (from 0) of the quotes of the source, in bytes
Quotes == {b \in 0..(ByteLen(scanner.source) - 1) : ByteAt(scanner.source, b + 1) = <<"\"", 1>>}

\* the number of quotes up to offset b
QuoteRank(b) == Cardinality({q \in Quotes : q <= b})

\* the number of newlines of the source before offset b
NewlinesBefore(b) == Cardinality({n \in 1..b : ByteAt(scanner.source, n) = <<"\n", 1>>})

StringTokens == {i \in DOMAIN scanner.tokens : scanner.tokens[i].token_type = "StringLit"}

\* a StringLit token goes from a quote that opens a string to the next
\* quote; its payload is the text between them and its line the line of the
\* closing quote
StringIsBetweenQuotes(i) ==
    LET start == scanner.spans[i].start
        current == scanner.spans[i].current
    IN /\ start \in Quotes /\ QuoteRank(start) % 2 = 1
       /\ current - 1 \in Quotes /\ QuoteRank(current - 1) = QuoteRank(start) + 1
       /\ scanner.tokens[i].literal.lk = "StringValue"
       /\ Bytes(scanner.tokens[i].literal.s) = SubSeq(Bytes(scanner.source), start + 2, current - 1)
       /\ scanner.tokens[i].line_num = 1 + NewlinesBefore(current)

\* the scan of a source that has strings and no comment does not crash; when
\* it returns, every pair of quotes has become a token, and a last quote
\* without a partner the error "Unterminated string" and no token
StringsAreScanned ==
    (NoComment /\ Quotes # {}) =>
        /\ pc # "crashed"
        /\ pc = "scanned" =>
              /\ Cardinality(StringTokens) = Cardinality(Quotes) \div 2
              /\ Cardinality(Quotes) % 2 = 1 =>
                    /\ result.res = "Err"
                    /\ scanner.errors[Len(scanner.errors)] = Msg("Unterminated string", << >>)
                    /\ \A i \in StringTokens : QuoteRank(scanner.spans[i].start) < Cardinality(Quotes)

\* C20: a quote starts a string token that goes to the next quote; its payload
\* is the text strictly between the quotes, newlines in it are kept and each
\* increments line; reaching the end of the source before a closing quote
\* makes scan_tokens return an error, no StringLit token being emitted.
C20_StringTokens ==
    /\ \A i \in StringTokens : StringIsBetweenQuotes(i)
    /\ StringsAreScanned

\* the same on the sources of one-byte characters
AsciiStringTokens == AsciiSource => C20_StringTokens

\* a string of two lines, then an identifier on the third line
AsciiStringsWitness ==
    /\ pc = "scanned"
    /\ scanner.source = <<"\"", "a", "\n", "1", "\n", "\"", "a">>
    /\ scanner.tokens[1] = Token("StringLit", <<"\"", "a", "\n", "1", "\n", "\"">>,
                                 [lk |-> "StringValue", s |-> <<"a", "\n", "1", "\n">>], 3)
    /\ scanner.tokens[2].line_num = 3

-----------------------------------------------------------------------------
(* Identifiers and reserved words                                          *)

\* an ASCII letter or the underscore
IsLetter(c) ==
    \/ CharCode(c) >= 97 /\ CharCode(c) <= 122
    \/ CharCode(c) >= 65 /\ CharCode(c) <= 90
    \/ CharCode(c) = 95

\* a character of [A-Za-z0-9_]
IsWordChar(c) == IsLetter(c) \/ (CharCode(c) >= 48 /\ CharCode(c) <= 57)

\* the tokens that are identifiers or reserved words
WordTokens == {i \in DOMAIN scanner.tokens : scanner.tokens[i].token_type \in Keywords \cup {"Identifier"}}

\* the kind of a word: that of the reserved word it is, or Identifier
KindOfWord(lexeme) ==
    IF \E k \in Keywords : KW(k) = lexeme THEN CHOOSE k \in Keywords : KW(k) = lexeme
    ELSE "Identifier"

\* token i is the longest run of word characters from its start, which is a
\* letter or an underscore, and has the kind of its whole lexeme
WordIsLongestRun(i) ==
    LET start == scanner.spans[i].start
        current == scanner.spans[i].current
    IN /\ start < current /\ current <= Len(scanner.source)
       /\ scanner.tokens[i].lexeme = SubSeq(scanner.source, start + 1, current)
       /\ IsLetter(CharAt(start))
       /\ \A b \in start..(current - 1) : IsWordChar(CharAt(b))
       /\ ~IsWordChar(CharAt(current))
       /\ scanner.tokens[i].token_type = KindOfWord(scanner.tokens[i].lexeme)

\* the source has no string
NoQuote == \A b \in 0..(Len(scanner.source) - 1) : CharAt(b) # "\""

\* the offsets where a word starts: a letter or an underscore that no word
\* character precedes
WordStarts ==
    {b \in 0..(Len(scanner.source) - 1) : IsLetter(CharAt(b)) /\ (b = 0 \/ ~IsWordChar(CharAt(b - 1)))}

\* the scan of a source that has words, and neither a comment nor a string,
\* does not crash; when it returns every word has become a token
WordsAreScanned ==
    (NoComment /\ NoQuote /\ WordStarts # {}) =>
        /\ pc # "crashed"
        /\ pc = "scanned" => \A b \in WordStarts : \E i \in WordTokens : scanner.spans[i].start = b

\* C21: an identifier is the longest run of [A-Za-z0-9_] that starts at a
\* letter or an underscore; it is emitted with the kind of a reserved word iff
\* its whole lexeme is one of the 16 reserved words, and as Identifier
\* otherwise: variable and this_is_a_var are Identifiers.
C21_Identifiers ==
    /\ \A i \in WordTokens : WordIsLongestRun(i)
    /\ WordsAreScanned

\* the same on the sources of one-byte characters
AsciiIdentifiers == AsciiSource => C21_Identifiers

\* var this_is_a_var = 12; while true { print 3 }; was scanned
AsciiIdentifiersWitness ==
    /\ pc = "scanned"
    /\ Len(scanner.tokens) = 13
    /\ [i \in 1..13 |-> scanner.tokens[i].token_type]
         = <<"Var", "Identifier", "Equal", "Number", "SemiColon", "While", "True", "LeftBrace",
             "Print", "Number", "RightBrace", "SemiColon", "Eof">>
    /\ scanner.tokens[2].lexeme = <<"t", "h", "i", "s", "_", "i", "s", "_", "a", "_", "v", "a", "r">>
    /\ scanner.tokens[6].line_num = 2

-----------------------------------------------------------------------------
(* Operators of one and of two characters                                  *)

\* scanner.rs 109-143: the kind of a candidate alone, and with `=` after it
OneCharKind == ("!" :> "Bang") @@ ("=" :> "Equal") @@ ("<" :> "Less") @@ (">" :> "Greater")
TwoCharKind ==
    ("!" :> "BangEqual") @@ ("=" :> "EqualEqual") @@ ("<" :> "LessEqual") @@ (">" :> "GreaterEqual")

\* the tokens of these eight kinds
OperatorTokens ==
    {i \in DOMAIN scanner.tokens :
        scanner.tokens[i].token_type \in {OneCharKind[c] : c \in TwoCharCandidates}
                                         \cup {TwoCharKind[c] : c \in TwoCharCandidates}}

\* token i starts at a candidate; it is the candidate and the `=` after it,
\* or the candidate alone when another character follows
OperatorTakesEqual(i) ==
    LET start == scanner.spans[i].start
        current == scanner.spans[i].current
        c == CharAt(start)
    IN /\ c \in TwoCharCandidates
       /\ IF CharAt(start + 1) = "="
          THEN /\ scanner.tokens[i].token_type = TwoCharKind[c]
               /\ current = start + 2
               /\ scanner.tokens[i].lexeme = <<c, "=">>
          ELSE /\ scanner.tokens[i].token_type = OneCharKind[c]
               /\ current = start + 1
               /\ scanner.tokens[i].lexeme = <<c>>

\* the offsets of the candidates
Candidates == {b \in 0..(Len(scanner.source) - 1) : CharAt(b) \in TwoCharCandidates}

\* the scan of a source that has candidates, and neither a comment nor a
\* string, does not crash; when it returns every candidate is in an operator
\* token, and the character after a token of one character that is a
\* candidate, a letter or a parenthesis starts the next token
OperatorsAreScanned ==
    (NoComment /\ NoQuote /\ Candidates # {}) =>
        /\ pc # "crashed"
        /\ pc = "scanned" =>
              /\ \A b \in Candidates :
                    \E i \in OperatorTokens : scanner.spans[i].start <= b /\ b < scanner.spans[i].current
              /\ \A i \in OperatorTokens :
                    (CharAt(scanner.spans[i].current) \in TwoCharCandidates \cup {"a", "("}) =>
                        scanner.spans[i + 1].start = scanner.spans[i].current

\* C22: each of ! = < > immediately followed by = is one token of two
\* characters (BangEqual, EqualEqual, LessEqual, GreaterEqual) that consumes
\* both; otherwise it is the token of one character and the character after it
\* is scanned on its own.
C22_TwoCharTokens ==
    /\ \A i \in OperatorTokens : OperatorTakesEqual(i)
    /\ OperatorsAreScanned

\* the same on the sources of one-byte characters
AsciiTwoCharTokens == AsciiSource => C22_TwoCharTokens

\* ! != == >= was scanned
AsciiTwoCharWitness ==
    /\ pc = "scanned"
    /\ [i \in DOMAIN scanner.tokens |-> scanner.tokens[i].token_type]
         = <<"Bang", "BangEqual", "EqualEqual", "GreaterEqual", "Eof">>
    /\ scanner.spans[2] = [start |-> 2, current |-> 4]

-----------------------------------------------------------------------------
(* Characters that start no token                                          *)

\* scanner.rs 98-160: the characters scan_token has an arm for, with the
\* digits, the letters and the underscore of the last arm
StartsToken(c) ==
    \/ \E i \in 1..Len(SingleChar) : SingleChar[i][1] = c
    \/ c \in TwoCharCandidates \cup {"/", "\""}
    \/ IsWordChar(c)

\* the offsets of the characters that start no token and are not white space
Unrecognised ==
    {b \in 0..(Len(scanner.source) - 1) :
        ~StartsToken(CharAt(b)) /\ CharAt(b) \notin {" ", "\r", "\t", "\n"}}

\* the k-th of them
UnrecognisedAt(k) == CHOOSE b \in Unrecognised : Cardinality({c \in Unrecognised : c <= b}) = k

\* the line of offset b
LineOf(b) == 1 + Cardinality({n \in 0..(b - 1) : CharAt(n) = "\n"})

\* the messages of the unrecognised characters of the source, in order
UnrecognisedMessages ==
    [k \in 1..Cardinality(Unrecognised) |->
        Msg("unrecognised char at line {}: {}",
            <<NatToString(LineOf(UnrecognisedAt(k))), <<CharAt(UnrecognisedAt(k))>>>>)]

\* the scan of a source without comment and string that has returned has
\* reported every unrecognised character, and nothing else
UnrecognisedAreReported ==
    (NoComment /\ NoQuote /\ pc = "scanned") =>
        /\ scanner.errors = UnrecognisedMessages
        /\ is_at_end(scanner)
        /\ result.res = IF Unrecognised = {} THEN "Ok" ELSE "Err"

\* C23: every character that starts no token and is not white space, the
\* characters outside ASCII included, yields the error "unrecognised char at
\* line N: C" with N the current line, and the scan goes on; scan_tokens
\* returns tokens or an error for every source.
C23_UnrecognisedChars ==
    /\ pc # "crashed"
    /\ UnrecognisedAreReported

\* the same on the sources of one-byte characters
AsciiUnrecognisedChars == AsciiSource => C23_UnrecognisedChars

\* @a@, a newline and @ was scanned: three errors, the last on line 2
AsciiUnrecognisedWitness ==
    /\ pc = "scanned"
    /\ scanner.source = <<"@", "a", "@", "\n", "@">>
    /\ scanner.errors = <<Msg("unrecognised char at line {}: {}", <<(<<"1">>), <<"@">>>>),
                          Msg("unrecognised char at line {}: {}", <<(<<"1">>), <<"@">>>>),
                          Msg("unrecognised char at line {}: {}", <<(<<"2">>), <<"@">>>>)>>
    /\ Len(scanner.tokens) = 2

-----------------------------------------------------------------------------
(* Assignment                                                              *)

\* an assignment that succeeded wrote its value to the innermost frame on
\* the chain of its environment that had the name, and changed nothing else
AssignOverwritesInnermost ==
    \A i \in DOMAIN log : log[i].ev = "assign" =>
        LET frame == Resolve(log[i].before, log[i].environment, log[i].name) IN
        /\ frame # 0
        /\ log[i].after = [log[i].before EXCEPT
                              ![frame].values = (log[i].name :> log[i].value) @@ @]
        /\ DOMAIN log[i].after[frame].values = DOMAIN log[i].before[frame].values

\* an assignment that found no frame with the name on its chain failed with
\* the message, and the frames were left as they were
AssignFailsUndeclared ==
    \A i \in DOMAIN log : log[i].ev = "unassigned" =>
        /\ Resolve(log[i].envs, log[i].environment, log[i].name) = 0
        /\ i < Len(log)
        /\ log[i + 1].ev = "error"
        /\ log[i + 1].msg = Msg("variable {} has not been declared", <<log[i].name>>)
        /\ log[i + 1].envs = log[i].envs
        /\ \A g \in DOMAIN log[i].envs : log[i].name \notin DOMAIN log[i].envs[g].values
        /\ result.res = "Err" => (result.msg = log[i + 1].msg /\ envs = log[i].envs)

\* a line that prints the assignment of a variable to a name reads the
\* variable first: after the event of the statement comes the read or the
\* error of the read; the line prints the value assigned
AssignAfterValue ==
    \A i \in DOMAIN log :
        (/\ log[i].ev = "begin"
         /\ log[i].stmts[1].k = "Print"
         /\ log[i].stmts[1].expression.k = "Assign"
         /\ log[i].stmts[1].expression.value.k = "Variable") =>
            LET target == log[i].stmts[1].expression.name.lexeme
                source == log[i].stmts[1].expression.value.name.lexeme
            IN IF get(log[i].envs, log[i].environment, source).some
               THEN /\ log[i + 2].ev = "read" /\ log[i + 2].name = source
                    /\ log[i + 3].ev \in {"assign", "unassigned"} /\ log[i + 3].name = target
                    /\ log[i + 3].ev = "assign" =>
                          /\ log[i + 3].value = log[i + 2].value
                          /\ log[i + 4].ev = "println"
                          /\ log[i + 4].line = to_string(log[i + 3].value)
               ELSE /\ log[i + 2].ev = "error"
                    /\ log[i + 2].msg = Msg("Variable '{}' has not been declared", <<source>>)
                    /\ \A k \in (i + 1)..Len(log) : log[k].ev \notin {"assign", "unassigned"}

\* C24: Assign evaluates the right-hand side first, then overwrites the
\* binding in the innermost frame on the current chain that has the name and
\* yields the value assigned; when no frame on the chain has the name it fails
\* with "variable <name> has not been declared" and no frame gains a binding
\* for the name.
C24_Assign == AssignOverwritesInnermost /\ AssignFailsUndeclared /\ AssignAfterValue

\* in a block that declares a, a = 2.0 wrote to the block's frame and left
\* the a of the globals; and an assignment to a name never declared failed
C24_Witness ==
    /\ \E i \in DOMAIN log :
          /\ log[i].ev = "assign"
          /\ log[i].environment = 2
          /\ Len(log[i].before) = 2
          /\ a.lexeme \in DOMAIN log[i].before[1].values
          /\ a.lexeme \in DOMAIN log[i].before[2].values
          /\ log[i].before[1].values[a.lexeme] = Number(1, 1)
          /\ log[i].before[2].values[a.lexeme] = Number(3, 1)
          /\ log[i].after[2].values[a.lexeme] = Number(2, 1)
          /\ log[i].after[1].values[a.lexeme] = Number(1, 1)
    /\ out = <<(<<"2">>)>>

-----------------------------------------------------------------------------
(* The chains of frames                                                    *)

\* the frames of the history: those each event recorded, in order, and the
\* frames of the state
SnapshotsOf(event) ==
    CASE event.ev \in {"define", "assign", "scope", "enter"} -> <<event.before, event.after>>
      [] event.ev = "block" -> <<event.envs, event.after>>
      [] event.ev = "leave" -> <<event.envs, Rc_drop(event.envs, event.frame)>>
      [] event.ev \in {"begin", "read", "error", "callee", "unassigned"} -> <<event.envs>>
      [] OTHER -> << >>

RECURSIVE SnapshotsUpTo(_)
SnapshotsUpTo(n) == IF n = 0 THEN << >> ELSE SnapshotsUpTo(n - 1) \o SnapshotsOf(log[n])

Snapshots == SnapshotsUpTo(Len(log)) \o <<envs>>

\* the globals have no enclosing frame; every other frame has an older one
ChainsEndAtGlobals(es) ==
    /\ Len(es) >= 1
    /\ \A e \in DOMAIN es : IF e = 1 THEN es[e].enclosing = 0 ELSE es[e].enclosing \in 1..(e - 1)

\* the number of links from frame e to the globals
RECURSIVE Depth(_, _)
Depth(es, e) == IF es[e].enclosing = 0 THEN 0 ELSE 1 + Depth(es, es[e].enclosing)

\* a block and a call made their frame empty, under a frame that there was
FramesAreMadeUnderOlder ==
    \A i \in DOMAIN log : log[i].ev \in {"scope", "enter"} =>
        /\ log[i].parent \in DOMAIN log[i].before
        /\ log[i].frame = Len(log[i].before) + 1
        /\ log[i].after = Append(log[i].before, [values |-> NoValues, enclosing |-> log[i].parent])

\* from one record of the frames to the next the frames that stay keep their
\* enclosing
LinksNeverChange ==
    \A k \in 1..(Len(Snapshots) - 1) :
        \A e \in DOMAIN Snapshots[k] \cap DOMAIN Snapshots[k + 1] :
            Snapshots[k + 1][e].enclosing = Snapshots[k][e].enclosing

\* C25: the enclosing links form chains without a cycle: a frame made by a
\* block or by a call has as its enclosing a frame that was there before it,
\* the links from any frame lead to the globals, whose enclosing is none, in
\* finitely many steps, and no operation changes the enclosing of a frame the
\* program can see.
C25_ChainsAreAcyclic ==
    /\ \A k \in DOMAIN Snapshots :
          /\ ChainsEndAtGlobals(Snapshots[k])
          /\ \A e \in DOMAIN Snapshots[k] : Depth(Snapshots[k], e) < e
    /\ FramesAreMadeUnderOlder
    /\ LinksNeverChange

\* a call from a block inside a block: the call frame is the fourth frame,
\* three links from the globals
C25_Witness ==
    \E i \in DOMAIN log :
        /\ log[i].ev = "enter"
        /\ log[i].frame = 4 /\ log[i].parent = 3
        /\ Depth(log[i].after, 4) = 3

-----------------------------------------------------------------------------
(* Binary expressions over every pairing of operand types (expr.rs 256-285) *)

Star == Operator("Star", <<"*">>)
Slash == Operator("Slash", <<"/">>)
Greater == Operator("Greater", <<">">>)
GreaterEqual == Operator("GreaterEqual", <<">", "=">>)
LessEqual == Operator("LessEqual", <<"<", "=">>)
BangEqual == Operator("BangEqual", <<"!", "=">>)

\* the operators the parser puts in a Binary (parser.rs 280-375)
BinaryTokens == {Plus, Minus, Star, Slash, Greater, GreaterEqual, Less, LessEqual, BangEqual, EqualEqual}

\* operands of every type: numbers, strings, booleans, nil and a callable
BinaryOperands ==
    {Lit(0), Lit(1), Lit(2), LitX, Literal(StringValue(<<"y">>)),
     Literal(True), Literal(False), Literal(Nil), Variable(clock)}

BinaryPrograms == {<<PrintStmt(Binary(l, op, r))>> : l \in BinaryOperands, op \in BinaryTokens, r \in BinaryOperands}

\* one line that prints one Binary expression, in a fresh session
InterpretBinary ==
    \E stmts \in BinaryPrograms, now \in ClockTimes :
        /\ pc = "prompt"
        /\ lines = 0
        /\ lines' = lines + 1
        /\ InterpretStmts(stmts, now)
        /\ UNCHANGED <<scanner, parser, run>>

NextBinary == InterpretBinary

SpecBinary == InitInterpret /\ [][NextBinary]_vars

\* the value of an operand of BinaryOperands in the fresh session
OperandValue(e) == IF e.k = "Literal" THEN e.value ELSE get(Globals, 1, e.name.lexeme).value

ArithmeticOperators == {"Plus", "Minus", "Star", "Slash"}
ComparisonOperators == {"Greater", "GreaterEqual", "Less", "LessEqual", "EqualEqual", "BangEqual"}

\* what the operators listed give for two Numbers
NumberResult(n1, op, n2) ==
    CASE op = "Plus" -> NumAdd(n1, n2)
      [] op = "Minus" -> NumSub(n1, n2)
      [] op = "Star" -> NumMul(n1, n2)
      [] op = "Slash" -> NumDiv(n1, n2)
      [] op = "Greater" -> from_bool(NumLess(n2, n1))
      [] op = "GreaterEqual" -> from_bool(NumLess(n2, n1) \/ NumEq(n1, n2))
      [] op = "Less" -> from_bool(NumLess(n1, n2))
      [] op = "LessEqual" -> from_bool(NumLess(n1, n2) \/ NumEq(n1, n2))
      [] op = "EqualEqual" -> from_bool(NumEq(n1, n2))
      [] op = "BangEqual" -> from_bool(~NumEq(n1, n2))

\* what the operators listed give for two Strings
StringResult(s1, op, s2) ==
    CASE op = "Plus" -> StringValue(s1 \o s2)
      [] op = "Greater" -> from_bool(StrLess(s2, s1))
      [] op = "GreaterEqual" -> from_bool(StrLess(s2, s1) \/ s1 = s2)
      [] op = "Less" -> from_bool(StrLess(s1, s2))
      [] op = "LessEqual" -> from_bool(StrLess(s1, s2) \/ s1 = s2)
      [] op = "EqualEqual" -> from_bool(s1 = s2)
      [] op = "BangEqual" -> from_bool(s1 # s2)

Printed1(value) == [res |-> "Ok", line |-> to_string(value)]
Failed1(msg) == [res |-> "Err", msg |-> msg]

\* the outcome of print l op r, by the types of l and r
DispatchOnTypes(l, op, r) ==
    CASE l.t = "Number" /\ r.t = "Number" /\ op \in ArithmeticOperators \cup ComparisonOperators ->
            Printed1(NumberResult(l, op, r))
      [] l.t = "StringValue" /\ r.t = "StringValue" /\ op \in {"Plus"} \cup ComparisonOperators ->
            Printed1(StringResult(l.s, op, r.s))
      [] l.t = "StringValue" /\ r.t = "Number" ->
            Failed1(Msg("'{}' is not defined for string and number", <<<<op>>>>))
      [] l.t = "Number" /\ r.t = "StringValue" ->
            Failed1(Msg("'{}' is not defined for number and string", <<<<op>>>>))
      [] OTHER ->
            Failed1(Msg("{} is not implemented for operands {} and {}", <<<<op>>, to_string(l), to_string(r)>>))

\* the line's outcome as the session shows it
LineOutcome ==
    IF result.res = "Ok" THEN [res |-> "Ok", line |-> out[Len(out)]]
    ELSE [res |-> result.res, msg |-> result.msg]

PrintsABinary ==
    /\ log # << >>
    /\ log[1].ev = "begin"
    /\ log[1].stmts \in BinaryPrograms

BinaryOf == log[1].stmts[1].expression

\* C26: a Binary expression dispatches on the types of both operand values:
\* two Numbers or two Strings give the arithmetic, concatenation or
\* comparison result for the operators listed, a String with a Number in
\* either order fails with the "is not defined for" message, and every other
\* pairing (== and != between booleans, nils, callables or values of
\* different types included) fails with "<op> is not implemented for
\* operands <lhs> and <rhs>"; a failed line prints nothing.
C26_BinaryDispatch ==
    PrintsABinary =>
        /\ LineOutcome = DispatchOnTypes(OperandValue(BinaryOf.left), BinaryOf.operator.token_type,
                                         OperandValue(BinaryOf.right))
        /\ result.res = "Err" => out = << >>

\* true == true has failed with the "is not implemented for operands" message
C26_Witness ==
    /\ PrintsABinary
    /\ BinaryOf = Binary(Literal(True), EqualEqual, Literal(True))
    /\ result = [res |-> "Err",
                 msg |-> Msg("{} is not implemented for operands {} and {}",
                             <<<<"EqualEqual">>, <<"t", "r", "u", "e">>, <<"t", "r", "u", "e">>>>)]

-----------------------------------------------------------------------------
(* While loops (interpreter.rs 93-102)                                     *)

IsLoopStep(event) == event.ev \in {"condition", "iteration"}

\* the condition evaluations and body executions of the line's loop, in order
LoopSteps == SelectSeq(log, IsLoopStep)

Iterations == Len(SelectSeq(log, LAMBDA event : event.ev = "iteration"))
Conditions == Len(SelectSeq(log, LAMBDA event : event.ev = "condition"))

\* the loop begins with a condition evaluation, a body execution follows
\* each truthy evaluation and a condition evaluation each body execution
\* that did not fail, and nothing follows a falsy evaluation
ConditionAndBodyAlternate ==
    /\ \A i \in DOMAIN LoopSteps :
          /\ i % 2 = 1 => LoopSteps[i].ev = "condition"
          /\ i % 2 = 0 => LoopSteps[i].ev = "iteration" /\ LoopSteps[i - 1].truthy
          /\ (LoopSteps[i].ev = "condition" /\ LoopSteps[i].truthy) => i < Len(LoopSteps)
          /\ (LoopSteps[i].ev = "condition" /\ ~LoopSteps[i].truthy) => i = Len(LoopSteps)
    /\ \A i \in DOMAIN log :
          log[i].ev = "iteration" =>
              /\ i > 1 /\ log[i - 1].ev = "condition"
              /\ i < Len(log) /\ log[i + 1].ev = "exec"
              /\ log[i + 1].index = 1 /\ log[i + 1].of = 1 /\ log[i + 1].kind = log[i].kind

\* a loop that ended without an error made N body executions for N + 1
\* condition evaluations, the last of them falsy
LoopEndsAtFirstFalsy ==
    (pc = "prompt" /\ result.res = "Ok" /\ LoopSteps # << >>) =>
        /\ Conditions = Iterations + 1
        /\ ~LoopSteps[Len(LoopSteps)].truthy

WhileRepeats == ConditionAndBodyAlternate /\ LoopEndsAtFirstFalsy

\* a loop of two body executions has ended
WhileRepeatsWitness ==
    /\ pc = "prompt"
    /\ result.res = "Ok"
    /\ Iterations = 2
    /\ Conditions = 3

FactorialLines ==
    <<(<<"1", "0">>), <<"9", "0">>, <<"7", "2", "0">>, <<"5", "0", "4", "0">>, <<"3", "0", "2", "4", "0">>,
      <<"1", "5", "1", "2", "0", "0">>, <<"6", "0", "4", "8", "0", "0">>,
      <<"1", "8", "1", "4", "4", "0", "0">>, <<"3", "6", "2", "8", "8", "0", "0">>>>

\* the run of the line source ends after n body executions of its loop
RunIterates(source, n) ==
    (scanner.source = source /\ pc = "prompt") => Iterations = n

\* C27: a While statement evaluates its condition, executes the body once
\* after each truthy evaluation and re-evaluates the condition after each
\* body execution, ending at the first falsy evaluation (N body executions
\* for N + 1 condition evaluations); and the line
\* var p = 10; print p; for (var k = 9; k > 1; k = k - 1) { p = p * k; print p; }
\* executes the body exactly eight times and prints 10, 90, 720, 5040,
\* 30240, 151200, 604800, 1814400, 3628800.
C27_WhileAndFactorial ==
    /\ WhileRepeats
    /\ RunPrints(FactorialSource, FactorialLines)
    /\ RunIterates(FactorialSource, 8)

\* with the numbers written as floats, from 5.0 and 4.0: three body
\* executions, and 5, 20, 60, 120 are printed
FactorialFloatsPrints ==
    /\ RunPrints(FactorialFloats, <<(<<"5">>), <<"2", "0">>, <<"6", "0">>, <<"1", "2", "0">>>>)
    /\ RunIterates(FactorialFloats, 3)

FactorialFloatsWitness ==
    /\ scanner.source = FactorialFloats
    /\ pc = "prompt"
    /\ Len(run.stages) = 3
    /\ Iterations = 3
    /\ out = run.out \o <<(<<"5">>), <<"2", "0">>, <<"6", "0">>, <<"1", "2", "0">>>>

-----------------------------------------------------------------------------
(* Termination of parse (parser.rs 25-45, 497-536)                         *)

\* parse() is a sequential loop: once called, it takes its next step. The
\* fairness of an iteration is weak fairness with its enabling condition
\* (the guard of the while, parser.rs 29) written out.
IterationEnabled == pc = "parse" /\ ~Parser_is_at_end(parser)

SpecParserFair ==
    /\ InitParser /\ [][NextParser]_vars
    /\ WF_vars(ParseEof)
    /\ ([]<>(~IterationEnabled) \/ []<><<ParseDeclaration>>_vars)

\* an iteration of the loop of parse, whether its declaration succeeded,
\* failed and was resynchronised, or panicked, leaves the cursor further on
IterationAdvances == (pc = "parse" /\ pc' # "parsed") => parser'.current > parser.current

\* the cursor is on a token, the last token is the Eof and no token before
\* the cursor is
CursorUpToEof ==
    /\ parser.current < Len(parser.tokens)
    /\ parser.tokens[Len(parser.tokens)].token_type = "Eof"
    /\ \A i \in 1..parser.current : parser.tokens[i].token_type # "Eof"

\* parse has returned, or the process has panicked inside it
ParseEnded == pc \in {"parsed", "crashed"}

\* C28: parse() terminates on every finite token sequence that ends in Eof:
\* each iteration of the top-level loop, whether the declaration succeeds or
\* fails and resynchronises, advances the cursor by at least one token, and
\* the cursor never moves past the Eof token.
C28_ParseTerminates == [][IterationAdvances]_vars /\ []CursorUpToEof /\ <>ParseEnded

\* parse has returned on a ; ) ; where the declaration at ) failed without
\* consuming a token and synchronize moved the cursor from ) to the Eof
C28_Witness ==
    /\ scanner.source = StrayParen
    /\ pc = "parsed"
    /\ parser.skips = <<[from |-> 2, to |-> 4]>>
    /\ Parser_is_at_end(parser)
    /\ Len(parser.stmts) = 1

-----------------------------------------------------------------------------
(* The environment of a call (expr.rs 286-307, interpreter.rs 39-46)       *)

\* the evaluation of the callee of the call that the i-th event (an "enter")
\* starts: the last "callee" event before it, or 0
CalleeOf(i) ==
    IF \E j \in 1..(i - 1) : log[j].ev = "callee"
    THEN CHOOSE j \in 1..(i - 1) :
            log[j].ev = "callee" /\ \A k \in (j + 1)..(i - 1) : log[k].ev # "callee"
    ELSE 0

\* the events between the j-th and the i-th that evaluate an argument
ArgumentsBetween(j, i) == {k \in (j + 1)..(i - 1) : log[k].ev = "arg"}

\* the call frame is made by the call, empty, under the caller's environment
FrameUnderCaller(j, i) ==
    /\ log[j].name = log[i].name
    /\ log[i].parent = log[j].environment
    /\ log[i].frame \notin DOMAIN log[i].before
    /\ log[i].after = Append(log[i].before, [Environment_new EXCEPT !.enclosing = log[j].environment])
    /\ \A k \in (i + 1)..BodyEnd(i) :
          (log[k].ev \in {"read", "error"} /\ log[i].frame \in DOMAIN log[k].envs) =>
              log[k].envs[log[i].frame].enclosing = log[j].environment

\* the arguments are evaluated one after the other, first to last, each in
\* the caller's environment, and the frame is made after the last of them
ArgumentsBeforeFrame(j, i) ==
    /\ {log[k].index : k \in ArgumentsBetween(j, i)} = 1..log[j].nargs
    /\ \A k1, k2 \in ArgumentsBetween(j, i) : k1 < k2 => log[k1].index < log[k2].index
    /\ \A k \in (j + 1)..(i - 1) :
          /\ log[k].ev \in {"read", "assign", "unassigned"} => log[k].environment = log[j].environment
          /\ log[k].ev \in {"read", "error"} => Len(log[k].envs) = Len(log[j].envs)
          /\ log[k].ev = "assign" => Len(log[k].after) = Len(log[i].before)
    /\ Len(log[i].before) = Len(log[j].envs)

\* a name that the call frame does not bind is read along the caller's chain
FreeVariablesAlongCaller(j, i) ==
    \A k \in (i + 1)..BodyEnd(i) :
        (/\ log[k].ev = "read"
         /\ log[k].environment = log[i].frame
         /\ log[k].name \notin DOMAIN log[k].envs[log[i].frame].values)
        => get(log[k].envs, log[j].environment, log[k].name) = [some |-> TRUE, value |-> log[k].value]

\* C29: when a user function is invoked, the enclosing of its call frame is
\* the environment in which the Call expression is being evaluated (the
\* caller's current environment), so a free variable of the body is looked
\* up along the caller's chain; the arguments are evaluated left to right in
\* that same environment before the call frame is created.
C29_CallUnderCaller ==
    \A i \in DOMAIN log : log[i].ev = "enter" =>
        /\ CalleeOf(i) # 0
        /\ FrameUnderCaller(CalleeOf(i), i)
        /\ ArgumentsBeforeFrame(CalleeOf(i), i)
        /\ FreeVariablesAlongCaller(CalleeOf(i), i)

\* f(a = 2, a) has been called from a block: both arguments were evaluated in
\* the block's frame, the second reading the 2 that the first assigned, and
\* the call frame was made under the block's frame
C29_Witness ==
    /\ log # << >>
    /\ log[1].stmts = <<TwoArguments>>
    /\ result.res = "Ok"
    /\ out[Len(out)] = <<"2">>
    /\ \E i \in DOMAIN log :
          /\ log[i].ev = "enter" /\ log[i].parent = 2 /\ log[i].frame = 3
          /\ Cardinality(ArgumentsBetween(CalleeOf(i), i)) = 2

\* a function declared in the globals and called from a block has read its
\* free variable in the block's frame
FreeVariableWitness ==
    \E i \in DOMAIN log :
        /\ log[i].ev = "enter" /\ log[i].parent > 1 /\ log[i].declared # log[i].parent
        /\ \E k \in (i + 1)..BodyEnd(i) :
              /\ log[k].ev = "read" /\ log[k].environment = log[i].frame
              /\ log[k].name \in DOMAIN log[k].envs[log[i].parent].values

-----------------------------------------------------------------------------
(* Parameter binding (interpreter.rs 119-148)                              *)

RECURSIVE Chain(_, _)
\* the frames from e to the globals
Chain(es, e) == IF es[e].enclosing = 0 THEN {e} ELSE {e} \cup Chain(es, es[e].enclosing)

\* the call that the i-th event (an "enter") starts has returned
HasReturned(i) == \E k \in (i + 1)..Len(log) : log[k].ev = "leave" /\ log[k].frame = log[i].frame

\* the frames after the call of the i-th event has returned
AfterReturn(i) == Rc_drop(log[BodyEnd(i)].envs, log[i].frame)

\* the parameters are bound one after the other in the call frame, right
\* after it is made, and each binding leaves every other frame as it was
ParametersInCallFrame(j, i) ==
    /\ i + log[j].arity <= Len(log)
    /\ \A n \in 1..log[j].arity :
          /\ log[i + n].ev = "define"
          /\ log[i + n].environment = log[i].frame
          /\ \A c \in DOMAIN log[i + n].before :
                c # log[i].frame => log[i + n].after[c] = log[i + n].before[c]
    /\ log[j].arity > 0 =>
          DOMAIN log[i + log[j].arity].after[log[i].frame].values = {log[i + n].name : n \in 1..log[j].arity}

\* the events of the body of the call of the i-th event that assign to name
\* in frame c
AssignsIn(i, c, name) ==
    {k \in (i + 1)..BodyEnd(i) :
        /\ log[k].ev = "assign" /\ log[k].name = name
        /\ c \in DOMAIN log[k].before /\ log[k].before[c] # log[k].after[c]}

\* after the return the frames of the caller's chain bind the names they
\* bound before the call, to the same values but for the names that the
\* body assigned to, and the call frame is not among them
CallerChainKept(j, i) ==
    HasReturned(i) =>
        /\ \A c \in Chain(log[i].before, log[j].environment) :
              /\ c \in DOMAIN AfterReturn(i)
              /\ AfterReturn(i)[c].enclosing = log[i].before[c].enclosing
              /\ DOMAIN AfterReturn(i)[c].values = DOMAIN log[i].before[c].values
              /\ \A name \in DOMAIN log[i].before[c].values :
                    AfterReturn(i)[c].values[name] # log[i].before[c].values[name]
                        => AssignsIn(i, c, name) # {}
        /\ Chain(AfterReturn(i), log[j].environment) = Chain(log[i].before, log[j].environment)
        /\ log[i].frame \notin Chain(AfterReturn(i), log[j].environment)

HasEnvironment == {"read", "assign", "unassigned", "define", "callee"}
MovesEnvironment == {"scope", "block", "enter", "leave", "return"}

\* what the caller evaluates or executes next, in the same statement list,
\* after the call has returned, acts in the environment of the call
PointerKept(j, i) ==
    HasReturned(i) =>
        \A m \in (BodyEnd(i) + 1)..Len(log) :
            (/\ log[m].ev \in HasEnvironment
             /\ \A k \in (BodyEnd(i) + 1)..(m - 1) : log[k].ev \notin MovesEnvironment)
            => log[m].environment = log[j].environment

\* C30: a call to a user function binds the parameters only in the fresh
\* call frame: after the call returns, no frame on the caller's chain has
\* gained or changed a binding because of parameter binding (even when the
\* caller has a variable of the same name as a parameter), the call frame is
\* not on the caller's chain, and the interpreter's current-environment
\* pointer is the one it had before the call.
C30_ParametersInCallFrame ==
    /\ \A i \in DOMAIN log : log[i].ev = "enter" =>
          /\ CalleeOf(i) # 0
          /\ ParametersInCallFrame(CalleeOf(i), i)
          /\ CallerChainKept(CalleeOf(i), i)
          /\ PointerKept(CalleeOf(i), i)
    /\ (pc = "prompt" /\ result.res = "Ok" /\ log # << >> /\ log[1].stmts = ShadowingParameter) =>
          /\ interpreter.environment = log[1].environment
          /\ envs[log[1].environment].values[a.lexeme] = Number(1, 1)

\* var a = 1; fun f(a) { print a; a = 3; } print f(2); print a; has printed
\* 2, 3 and 1: the a of the globals is still 1 after the parameter a was
\* bound to 2 and assigned 3
C30_Witness ==
    /\ pc = "prompt"
    /\ result.res = "Ok"
    /\ log # << >>
    /\ log[1].stmts = ShadowingParameter
    /\ Len(out) >= 3
    /\ SubSeq(out, Len(out) - 2, Len(out)) = <<(<<"2">>), <<"3">>, <<"1">>>>
    /\ interpreter.environment = 1
    /\ Len(envs) = 1
    /\ \E i \in DOMAIN log :
          /\ log[i].ev = "enter" /\ HasReturned(i)
          /\ a.lexeme \in DOMAIN log[i].before[1].values
          /\ log[i + 1].ev = "define" /\ log[i + 1].name = a.lexeme /\ log[i + 1].environment = 2

====
